---- MODULE Spec2Model ----
(***************************************************************************)
(* A model of the sagebot library (src/lib): the SageBot orchestrator and  *)
(* its BotContext (bot.py), the selector parser of the browser steps       *)
(* (browser.py) and the screen-template click step (gui.py).               *)
(*                                                                         *)
(* Python values are encoded as follows.                                   *)
(*   - a str is a sequence of one-character strings; an Optional[str] is   *)
(*     <<>> for None and <<s>> for the string s;                           *)
(*   - a BotContext object is an index into the heap ctxs, 0 is None;      *)
(*   - a Page object is a positive integer, 0 is None;                     *)
(*   - a correlation value is an integer number of hundredths.             *)
(***************************************************************************)
EXTENDS Integers, Sequences, FiniteSets, TLC

(***************************************************************************)
(* Bounds of the model.                                                    *)
(***************************************************************************)
MaxSelLen == 2
MaxSteps == 2
MaxRuns == 2
MaxDim == 4
RatioDen == 4
MaxPageId == 3
MaxKeys == 2
MaxNameLen == 4

(***************************************************************************)
(* Strings and BrowserStep.parse_selector.                                 *)
(***************************************************************************)
SelChars == {"/", "a", "="}

RECURSIVE StrsOfLen(_)
StrsOfLen(n) ==
    IF n = 0 THEN {<<>>}
    ELSE {Append(s, ch) : s \in StrsOfLen(n - 1), ch \in SelChars}

Strs == UNION {StrsOfLen(n) : n \in 0..MaxSelLen}

NoneStr == <<>>
Some(s) == <<s>>
OptStrs == {NoneStr} \cup {Some(s) : s \in Strs}

\* Python truth value of an Optional[str]: None and "" are false.
Truthy(o) == o # NoneStr /\ Len(o[1]) > 0

XPathTag == <<"x", "p", "a", "t", "h", "=">>
CssTag == <<"c", "s", "s", "=">>

Returned(v) == [exc |-> "", val |-> v]
Raised(e) == [exc |-> e, val |-> <<>>]

\* parse_selector as it would be if it refused two selectors.
parse_selector_strict(x_path, css) ==
    IF Truthy(x_path) /\ Truthy(css) THEN Raised("ValueError")
    ELSE IF Truthy(x_path) THEN Returned(XPathTag \o x_path[1])
    ELSE IF Truthy(css) THEN Returned(CssTag \o css[1])
    ELSE Raised("ValueError")

\* parse_selector as it would be if css were tested first.
parse_selector_css_first(x_path, css) ==
    IF Truthy(css) THEN Returned(CssTag \o css[1])
    ELSE IF Truthy(x_path) THEN Returned(XPathTag \o x_path[1])
    ELSE Raised("ValueError")

\* parse_selector as it would be if a missing selector were let through.
parse_selector_lenient(x_path, css) ==
    IF Truthy(x_path) THEN Returned(XPathTag \o x_path[1])
    ELSE IF Truthy(css) THEN Returned(CssTag \o css[1])
    ELSE Returned(CssTag)

parse_selector(x_path, css) ==
    IF Truthy(x_path) THEN Returned(XPathTag \o x_path[1])
    ELSE IF Truthy(css) THEN Returned(CssTag \o css[1])
    ELSE Raised("ValueError")

(***************************************************************************)
(* Program constants and the values the environment may produce.          *)
(***************************************************************************)
DefaultThreshold == 80
NoCtx == 0
NoPage == 0
FailMark == "X"

CtxIds == {1, 2}
Thresholds == {DefaultThreshold, 100}
Waits == {0, 500}
Peaks == {79, 80, 100}
StateNames == {NoneStr, Some(<<"s">>)}
ExcMessages == {"e1"}
SelectorKinds == {"ClickElement", "FillInput", "FillAndSubmit", "ClickAndDownload"}
OrchestratorKinds == {"NewPage", "GoToURL", "Custom"}
ReferenceKinds == {"ClickOnReference"}
StateKinds == {"NewPage", "GoToURL", "StoreState"}
PageKinds == {"GoToURL", "Wait", "ClickElement", "FillInput", "FillAndSubmit",
              "ClickAndDownload", "HandleDialog"}
FileKinds == {"CopyFile", "MoveFile", "DeleteFile", "CopyLatestFileInFolder"}
StoreNames == {<<"s">>, <<"t">>}
Cookies == {"a", "g"}
CustomOutcomes == {"raise", "same", "other", "none", "store"}
GuiOps == {"screenshot", "moveTo", "dragTo", "click", "sleep", "keyDown", "keyUp",
           "pyautogui.press", "typewrite"}
FileOps == {"mkdir", "copy", "move", "chmod", "unlink"}
BrowserOps == {"new_page", "evaluate", "page_wait", "goto", "locator", "element_click",
               "fill", "press", "wait_for_timeout", "download", "save_as", "makedirs",
               "storage_state"}

\* The environment makes at most one call fail in a behaviour: what it may
\* still make fail after n failures.
Spare(n) == IF n = 0 THEN 1 ELSE 0

\* The log writes that the environment may make fail in an action that calls
\* log_action at most n times, when it may still make b operations fail.
LogFaults(n, b) == {S \in SUBSET (1..n) : Cardinality(S) <= b}

VARIABLES
    selIn,       \* the (x_path, css) handed to parse_selector, or <<>>
    selOut,      \* what parse_selector did with selIn
    geoIn,       \* the sizes, corner and ratios handed to a coordinate computation
    geoOut,      \* what the coordinate computation made of geoIn
    bc,          \* a BotContext whose page methods are called directly
    got,         \* what the last get_page call on bc did
    screen,      \* the size of the screen now: <<width, height>>
    mover,       \* a MouseMove or DragTo step the script made, to call on its own
    moved,       \* the calls of mover's execute so far
    unit,        \* a step of the library the script made, to call on its own
    calls,       \* the calls of unit's execute so far
    listeners,   \* the dialog listeners registered on the pages
    dialogs,     \* what happened to each dialog that appeared
    dlIn,        \* the download_name, suggested filename and URL of a download
    dlOut,       \* the name and the path the download was saved under
    kinds,       \* the step classes the script uses
    phase,       \* "script", "config_error", "init_error", "bot"
    steps,       \* the step objects the script has constructed
    ctor,        \* the constructor call the script made last
    functions,   \* SageBot.functions
    state_name,  \* SageBot.state_name
    held,        \* SageBot.context
    ctxs,        \* the BotContext objects
    logs,        \* logs[c]: the lines of <run folder of c>/actions.log
    stdout,      \* the lines printed
    stateFiles,  \* the names n for which ./states/n.json exists
    disk,        \* disk[p]: the cookies listed in the state file at path p
    storage,     \* storage[r]: the cookies the browser context of run r holds
    desktop,     \* whether the reference image file loads, and how well it matches the screen
    nextPage,    \* the next Page object the browser hands out
    pc,          \* where SageBot.execute is
    idx,         \* the position of the step loop
    runs,        \* the calls of SageBot.execute so far
    session,     \* per run: what was launched, closed and stopped
    hist,        \* the step calls of the current run
    last,        \* the last step call a step of the current run made
    faults,      \* the actions in which the environment failed so far
    error        \* the exception that left the script's last call, "" if none

vars == <<selIn, selOut, geoIn, geoOut, bc, got, screen, mover, moved, unit, calls,
          listeners, dialogs, dlIn, dlOut, kinds, phase, steps, ctor, functions,
          state_name, held, ctxs, logs, stdout, stateFiles, disk, storage, desktop, nextPage,
          pc, idx, runs, session, hist, last, faults, error>>

selVars == <<selIn, selOut>>
geoVars == <<geoIn, geoOut>>
pageVars == <<bc, got>>
moveVars == <<screen, mover, moved>>
callVars == <<unit, calls, listeners, dialogs>>
nameVars == <<dlIn, dlOut>>
funVars == <<selVars, geoVars, pageVars, moveVars, callVars, nameVars>>
botVars == <<kinds, phase, steps, ctor, functions, state_name, held, ctxs, logs, stdout,
             stateFiles, disk, storage, desktop, nextPage, pc, idx, runs, session, hist,
             last, faults, error>>

(***************************************************************************)
(* BotContext (bot.py).                                                    *)
(***************************************************************************)
Range(q) == {q[i] : i \in DOMAIN q}

\* BotContext.__init__: every handle None, nothing stored, no page.
BotContextInit ==
    [made |-> TRUE, playwright |-> 0, browser |-> 0, context |-> 0, page |-> NoPage,
     current_element |-> <<>>, data |-> {}, pages |-> <<>>, run_folder |-> "runs/run_id"]

\* A BotContext that has not been constructed yet.
NoObject == [BotContextInit EXCEPT !.made = FALSE]

set_playwright(ctx, playwright) == [ctx EXCEPT !.playwright = playwright]
set_browser(ctx, browser) == [ctx EXCEPT !.browser = browser]
set_context(ctx, context) == [ctx EXCEPT !.context = context]

set_page(ctx, page) ==
    [ctx EXCEPT !.page = page,
                !.pages = IF page \in Range(@) THEN @ ELSE Append(@, page)]

set_current_element(ctx, element) == [ctx EXCEPT !.current_element = element]
store_data(ctx, key) == [ctx EXCEPT !.data = @ \cup {key}]

\* BotContext.get_page: pages[index] as Python indexes a list, a negative
\* index counting from the end, or the current page when the list is empty.
get_page(ctx, index) ==
    LET n == Len(ctx.pages) IN
    IF n = 0 THEN [exc |-> "", val |-> ctx.page, index |-> index]
    ELSE IF 0 <= index /\ index < n
    THEN [exc |-> "", val |-> ctx.pages[index + 1], index |-> index]
    ELSE IF -n <= index /\ index < 0
    THEN [exc |-> "", val |-> ctx.pages[n + index + 1], index |-> index]
    ELSE [exc |-> "IndexError", val |-> NoPage, index |-> index]

\* A context as BotContext.__init__ leaves its session fields.
Fresh(ctx) ==
    /\ ctx.pages = <<>>
    /\ ctx.page = NoPage
    /\ ctx.current_element = <<>>
    /\ ctx.data = {}

(***************************************************************************)
(* The primitive operations a step or the orchestrator performs, run one   *)
(* after the other on the world w = the objects, the files and the screen, *)
(* until one of them raises.  env says which of them the environment makes *)
(* fail: env.f holds the numbers of the log writes of this action that     *)
(* fail, env.fault names the browser or GUI call that fails.               *)
(***************************************************************************)
NoLine == [tag |-> "", text |-> "", arg |-> "", detail |-> "", sel |-> <<>>, num |-> 0,
           at |-> <<>>]
Line(tag, text, arg, sel, num) ==
    [tag |-> tag, text |-> text, arg |-> arg, detail |-> "", sel |-> sel, num |-> num,
     at |-> <<>>]

Log(tag, text, arg, sel, num) == [op |-> "log", line |-> Line(tag, text, arg, sel, num)]
Say(tag, text, arg, sel, num) == [op |-> "print", line |-> Line(tag, text, arg, sel, num)]
Do(name) == [op |-> name, line |-> NoLine]
With(name, sel) == [op |-> name, line |-> Line("", "", "", sel, 0)]
At(name, x, y) == [op |-> name, line |-> [NoLine EXCEPT !.at = <<x, y>>]]
LogAt(tag, text, x, y) ==
    [op |-> "log", line |-> [Line(tag, text, "", <<>>, 0) EXCEPT !.at = <<x, y>>]]
Key(name, k) == [op |-> name, line |-> [NoLine EXCEPT !.num = k]]
Sleeping(ms) == [op |-> "sleep", line |-> [NoLine EXCEPT !.num = ms]]
On(handler) == [op |-> "on", line |-> NoLine, handler |-> handler]

World(c, l, o, p) == [ctxs |-> c, logs |-> l, stdout |-> o, nextPage |-> p,
                      n |-> 0, ev |-> <<>>, tmp |-> NoPage, hit |-> 0,
                      disk |-> <<>>, storage |-> <<>>, listeners |-> <<>>]

\* The world with the state files and the cookies of the browser contexts.
Machine(w, d, st) == [w EXCEPT !.disk = d, !.storage = st]

(***************************************************************************)
(* Session state.  The browser context holds a set of cookies; a state     *)
(* file lists them in some order.                                          *)
(***************************************************************************)
Dir == <<".", "/", "s", "t", "a", "t", "e", "s">>
Json == <<".", "j", "s", "o", "n">>

\* The path SageBot.execute restores from: f"./states/{self.state_name}.json".
RestorePath(name) ==
    <<".", "/", "s", "t", "a", "t", "e", "s", "/">> \o name \o Json

\* The path of StoreState.execute as it would be without the extension.
StorePath_bare(name) == Dir \o <<"/">> \o name

\* The path StoreState.execute writes: path = "./states",
\* f"{path}/{self.state_name}.json".
StorePath(name) == Dir \o <<"/">> \o name \o Json

\* browser.new_context(storage_state=file): the cookies the file lists.
Load(content) == Range(content)

\* context.storage_state(path=file): the cookies of the context, listed in
\* one of the orders the browser may hand them out in.
Serialise(jar, reverse) ==
    SelectSeq(IF reverse THEN <<"g", "a">> ELSE <<"a", "g">>, LAMBDA k : k \in jar)

FileContents == {Serialise(jar, reverse) : jar \in SUBSET Cookies, reverse \in BOOLEAN}

\* The files after content is written at path p.
Write(d, p, content) == [q \in DOMAIN d \cup {p} |-> IF q = p THEN content ELSE d[q]]

\* The names whose state file exists.
Stored(d) == {n \in StoreNames : RestorePath(n) \in DOMAIN d}

Ok(w) == [w |-> w, exc |-> ""]
Fail(w, e) == [w |-> w, exc |-> e]
Fault(w, e) == [w |-> [w EXCEPT !.hit = @ + 1], exc |-> e]
Done(w, o) == Ok([w EXCEPT !.ev = Append(@, o)])

\* log_action as it would be if the line were not printed.
log_action_silent(w, c, o, env) ==
    IF c = NoCtx THEN Fail(w, "AttributeError")
    ELSE IF (w.n + 1) \in env.f THEN Fault([w EXCEPT !.n = @ + 1], "OSError")
    ELSE Done([w EXCEPT !.n = @ + 1, !.logs[c] = Append(@, o.line)], o)

\* log_action as it would be if the line were written over the file.
log_action_overwrite(w, c, o, env) ==
    LET w1 == [w EXCEPT !.stdout = Append(@, o.line)] IN
    IF c = NoCtx THEN Fail(w1, "AttributeError")
    ELSE IF (w.n + 1) \in env.f THEN Fault([w1 EXCEPT !.n = @ + 1], "OSError")
    ELSE Done([w1 EXCEPT !.n = @ + 1, !.logs[c] = <<o.line>>], o)

\* BotContext.log_action: print the line, then append it to the run's log.
log_action(w, c, o, env) ==
    LET w1 == [w EXCEPT !.stdout = Append(@, o.line)] IN
    IF c = NoCtx THEN Fail(w1, "AttributeError")
    ELSE IF (w.n + 1) \in env.f THEN Fault([w1 EXCEPT !.n = @ + 1], "OSError")
    ELSE Done([w1 EXCEPT !.n = @ + 1, !.logs[c] = Append(@, o.line)], o)

NoPageOf(w, c) == c = NoCtx \/ w.ctxs[c].page = NoPage

DoOp(w, c, o, env) ==
    CASE o.op = "log" -> log_action(w, c, o, env)
      [] o.op = "print" -> Ok([w EXCEPT !.stdout = Append(@, o.line)])
      [] o.op \in GuiOps ->
            IF env.fault = o.op THEN Fault(w, "GuiError") ELSE Done(w, o)
      [] o.op = "new_page" ->
            IF c = NoCtx \/ w.ctxs[c].context = 0 THEN Fail(w, "AttributeError")
            ELSE IF env.fault = o.op THEN Fault(w, "PlaywrightError")
            ELSE Done([w EXCEPT !.tmp = w.nextPage, !.nextPage = @ + 1], o)
      [] o.op = "set_page" ->
            Ok([w EXCEPT !.ctxs[c] = set_page(@, w.tmp)])
      [] o.op \in {"evaluate", "page_wait", "element_click", "download", "save_as",
                   "makedirs"} ->
            IF env.fault = o.op THEN Fault(w, "PlaywrightError") ELSE Done(w, o)
      [] o.op \in {"fill", "press", "wait_for_timeout", "locator"} ->
            IF NoPageOf(w, c) THEN Fail(w, "AttributeError")
            ELSE IF env.fault = o.op THEN Fault(w, "PlaywrightError")
            ELSE Done(w, o)
      [] o.op = "goto" ->
            IF NoPageOf(w, c) THEN Fail(w, "AttributeError")
            ELSE IF env.fault = o.op THEN Fault(w, "PlaywrightError")
            ELSE IF w.ctxs[c].context \in DOMAIN w.storage
            THEN Done([w EXCEPT !.storage[w.ctxs[c].context] = @ \cup env.site], o)
            ELSE Done(w, o)
      [] o.op = "storage_state" ->
            IF c = NoCtx \/ w.ctxs[c].context = 0 THEN Fail(w, "AttributeError")
            ELSE IF env.fault = o.op THEN Fault(w, "PlaywrightError")
            ELSE Done([w EXCEPT !.disk = Write(@, StorePath(o.line.sel),
                                              Serialise(w.storage[w.ctxs[c].context],
                                                        env.reverse))], o)
      [] o.op = "on" ->
            IF NoPageOf(w, c) THEN Fail(w, "AttributeError")
            ELSE Done([w EXCEPT !.listeners =
                          Append(@, [page |-> w.ctxs[c].page, handler |-> o.handler])], o)
      [] o.op \in FileOps ->
            IF env.fault = o.op THEN Fault(w, "OSError")
            ELSE IF o.op = "copy" /\ env.source = "dir" THEN Fail(w, "IsADirectoryError")
            ELSE Done(w, o)
      [] o.op = "set_current_element" ->
            Ok([w EXCEPT !.ctxs[c] = set_current_element(@, o.line.sel)])
      [] o.op = "store_data" ->
            IF c = NoCtx THEN Fail(w, "AttributeError")
            ELSE Ok([w EXCEPT !.ctxs[c] = store_data(@, "k")])

RECURSIVE RunOps(_, _, _, _)
RunOps(w, c, ops, env) ==
    IF ops = <<>> THEN Ok(w)
    ELSE LET r == DoOp(w, c, Head(ops), env) IN
         IF r.exc # "" THEN r ELSE RunOps(r.w, c, Tail(ops), env)

(***************************************************************************)
(* The steps.  A step object keeps what its constructor stored.             *)
(***************************************************************************)
Step(kind, selector, threshold, wait) ==
    [kind |-> kind, selector |-> selector, threshold |-> threshold, wait |-> wait]

\* A StoreState object keeps the name it was given.
StoreState(name) == [kind |-> "StoreState", state_name |-> name]

Then(r, c, ops, env) == IF r.exc # "" THEN r ELSE RunOps(r.w, c, ops, env)

\* execute as it would be if it handed nothing back.
Result_none(r, c) == [w |-> r.w, exc |-> r.exc, ret |-> NoCtx]

\* What execute hands back: the context it returns, or the exception it raises.
Result(r, c) == [w |-> r.w, exc |-> r.exc, ret |-> IF r.exc = "" THEN c ELSE NoCtx]

\* The trailing wait of the browser steps.
PageWait(step) ==
    IF step.wait > 0
    THEN <<Do("wait_for_timeout"), Log("hourglass", "Waited", "", <<>>, step.wait)>>
    ELSE <<>>

\* The trailing wait of the GUI steps, with the lines logged around it.
GuiWait(step, before, after) ==
    IF step.wait > 0 THEN before \o <<Do("sleep")>> \o after ELSE <<>>

\* NewPage.execute (url is None).
NewPage_execute(step, c, w, env) ==
    LET r1 == RunOps(w, c, <<Do("new_page")>>, env)
        try == Then(r1, c, <<Do("evaluate"),
                             Log("screen", "Maximized browser window", "", <<>>, 0)>>, env)
        r2 == IF r1.exc # "" \/ try.exc = "" THEN try
              ELSE RunOps(try.w, c, <<Log("screen", "Set viewport size", "", <<>>, 0)>>, env)
        r3 == Then(r2, c, <<Log("globe", "Opened new browser page.", "", <<>>, 0)>>
                          \o (IF step.wait > 0
                              THEN <<Do("page_wait"),
                                     Log("hourglass", "Waited", "", <<>>, step.wait)>>
                              ELSE <<>>)
                          \o <<Do("set_page")>>, env)
    IN Result(r3, c)

GoToURL_execute(step, c, w, env) ==
    Result(RunOps(w, c, <<Do("goto"), Log("globe", "Navigated to", "", <<>>, 0)>>
                        \o PageWait(step), env), c)

\* ClickElement.execute; a Locator object is always true, so the branch that
\* logs "not found" is never taken.
ClickElement_execute(step, c, w, env) ==
    Result(RunOps(w, c, <<With("locator", step.selector),
                          With("set_current_element", step.selector),
                          Do("element_click"),
                          Log("point", "Clicked element", "", step.selector, 0)>>
                        \o PageWait(step), env), c)

FillInput_execute(step, c, w, env) ==
    Result(RunOps(w, c, <<With("fill", step.selector),
                          Log("memo", "Filled input", "", step.selector, 0)>>
                        \o PageWait(step), env), c)

FillAndSubmit_execute(step, c, w, env) ==
    Result(RunOps(w, c, <<With("fill", step.selector), With("press", step.selector)>>
                        \o PageWait(step)
                        \o <<Log("memo", "Filled and submitted", "", step.selector, 0)>>,
                  env), c)

\* ClickAndDownload.execute: nothing in it catches an exception.
ClickAndDownload_execute(step, c, w, env) ==
    Result(RunOps(w, c, <<With("locator", step.selector),
                          With("set_current_element", step.selector),
                          Do("element_click"),
                          Do("download"),
                          Log("disk", "Download started", "", <<>>, 0),
                          Do("save_as"),
                          Log("disk", "Download completed", "", <<>>, 0),
                          Log("point", "Clicked element", "", step.selector, 0)>>
                        \o PageWait(step), env), c)

\* The threshold gate as it would be if an equal peak were no match.
Matches_strict(step, peak) == peak > step.threshold

\* The threshold gate of ClickOnReference.execute.
Matches(step, peak) == peak >= step.threshold

\* The statements of the try block of ClickOnReference.execute that the call
\* reaches when nothing raises.
ReferenceTry(step, env) ==
    IF ~env.loaded
    THEN <<Say("", "Image not found", "", <<>>, 0),
           Log(FailMark, "Image not found", "", <<>>, 0)>>
         \o GuiWait(step, <<>>, <<Log("hourglass", "Waited after error", "", <<>>, 0)>>)
    ELSE <<Log("ruler", "Template size", "", <<>>, 0),
           Do("screenshot"),
           Log("target", "Match confidence", "", <<>>, env.peak)>>
         \o (IF Matches(step, env.peak)
             THEN <<Log("target", "Reference found!", "", <<>>, 0),
                    Do("moveTo"),
                    Do("click"),
                    Log("point", "Successfully clicked", "", <<>>, 0)>>
                  \o GuiWait(step,
                             <<Log("hourglass", "Starting wait", "", <<>>, 0)>>,
                             <<Log("hourglass", "Completed wait", "", <<>>, 0)>>)
             ELSE <<Say("", "No reference match found", "", <<>>, env.peak),
                    Log(FailMark, "No reference match found", "", <<>>, env.peak)>>)

\* Whether the try block ends in a return statement.
ReferenceReturns(step, env) == ~env.loaded \/ Matches(step, env.peak)

\* ClickOnReference.execute.
ClickOnReference_execute(step, c, w, env) ==
    LET r0 == RunOps(w, c, <<Log("search", "Searching for reference image", "", <<>>, 0)>>,
                     env)
        try == Then(r0, c, ReferenceTry(step, env), env)
        handler == IF try.exc = "" THEN try
                   ELSE RunOps(try.w, c,
                               <<Say("", "Error in ClickOnReference", try.exc, <<>>, 0),
                                 Log(FailMark, "Error in ClickOnReference", try.exc, <<>>, 0)>>,
                               env)
        tail == Then(handler, c,
                     <<Log(FailMark, "ClickOnReference failed - executing fallback wait",
                           "", <<>>, 0)>>
                     \o GuiWait(step,
                                <<Log("hourglass", "Starting fallback wait", "", <<>>, 0)>>,
                                <<Log("hourglass", "Completed fallback wait", "", <<>>, 0)>>),
                     env)
    IN IF r0.exc # "" THEN Result(r0, c)
       ELSE IF try.exc = "" /\ ReferenceReturns(step, env) THEN Result(try, c)
       ELSE Result(tail, c)

StoreState_execute(step, c, w, env) ==
    Result(RunOps(w, c, <<Do("makedirs"),
                          With("storage_state", step.state_name),
                          Log("disk", "Stored state", "", step.state_name, 0)>>, env), c)

\* Wait.execute.
Wait(miliseconds) == [kind |-> "Wait", miliseconds |-> miliseconds]

Wait_execute(step, c, w, env) ==
    Result(RunOps(w, c, <<Do("wait_for_timeout"),
                          Log("hourglass", "Waited", "", <<>>, step.miliseconds)>>, env), c)

\* HandleDialog.  __init__ stores its argument in self.accept, an attribute
\* of the instance of the same name as the static method accept of the
\* class; dismiss is an attribute of the class only.
HandleDialog(accept, wait) == [kind |-> "HandleDialog", accept |-> accept, wait |-> wait]

Function(name) == [callable |-> TRUE, does |-> name]
Bool(b) == [callable |-> FALSE, does |-> IF b THEN "True" ELSE "False"]

\* self.<name> of a HandleDialog: the attribute of the instance when there
\* is one, else the attribute of the class.
HandleDialog_attr(step, name) ==
    IF name = "accept" THEN Bool(step.accept) ELSE Function(name)

HandleDialog_execute(step, c, w, env) ==
    Result(RunOps(w, c,
                  (IF step.accept
                   THEN <<On(HandleDialog_attr(step, "accept")),
                          Log("check", "Set up dialog handler to accept dialogs", "", <<>>, 0)>>
                   ELSE <<On(HandleDialog_attr(step, "dismiss")),
                          Log(FailMark, "Set up dialog handler to dismiss dialogs", "",
                              <<>>, 0)>>)
                  \o PageWait(step), env), c)

\* page.emit("dialog", dialog): the listeners are called in the order of
\* their registration; calling one that is no callable raises TypeError.
RECURSIVE Emit(_)
Emit(handlers) ==
    IF handlers = <<>> THEN <<>>
    ELSE IF ~Head(handlers).callable THEN <<"TypeError">>
    ELSE <<Head(handlers).does>> \o Emit(Tail(handlers))

\* The GUI steps that take no position.
Click(wait) == [kind |-> "Click", wait |-> wait]
Screenshot(wait) == [kind |-> "Screenshot", wait |-> wait]
TypeKeys(wait) == [kind |-> "TypeKeys", wait |-> wait]
ClickAt(x, y, wait) == [kind |-> "ClickAt", x |-> x, y |-> y, wait |-> wait]

Waited(step) == <<Log("hourglass", "Waited", "", <<>>, step.wait)>>

Click_execute(step, c, w, env) ==
    Result(RunOps(w, c, <<Do("click"), Log("point", "Clicked", "", <<>>, 0)>>
                        \o GuiWait(step, <<>>, Waited(step)), env), c)

Screenshot_execute(step, c, w, env) ==
    Result(RunOps(w, c, <<Do("sleep"), Do("screenshot")>>
                        \o GuiWait(step, <<>>, Waited(step))
                        \o <<Log("camera", "Took screenshot", "", <<>>, 0)>>, env), c)

TypeKeys_execute(step, c, w, env) ==
    Result(RunOps(w, c, <<Do("typewrite"), Log("memo", "Typed", "", <<>>, 0)>>
                        \o GuiWait(step, <<>>, Waited(step)), env), c)

ClickAt_execute(step, c, w, env) ==
    Result(RunOps(w, c, <<LogAt("target", "Clicking at absolute coordinates", step.x, step.y),
                          At("moveTo", step.x, step.y),
                          Do("click"),
                          LogAt("point", "Successfully clicked at", step.x, step.y)>>
                        \o GuiWait(step,
                                   <<Log("hourglass", "Starting wait", "", <<>>, 0)>>,
                                   <<Log("hourglass", "Completed wait", "", <<>>, 0)>>),
                  env), c)

\* Keys.  An entry of key_sequences is a string (one key) or a tuple of keys;
\* __init__ wraps an argument that is no list in a list.
KeyStr(k) == [type |-> "str", keys |-> <<k>>]
KeyTuple(ks) == [type |-> "tuple", keys |-> ks]
KeyList(items) == [type |-> "list", items |-> items]

Keys(key_sequences, wait) ==
    [kind |-> "Keys",
     key_sequences |-> IF key_sequences.type = "list" THEN key_sequences.items
                       ELSE <<key_sequences>>,
     wait |-> wait]

\* The body of the loop as it would be if the keys were released in the
\* order they were pressed in.
SequenceOps_fifo(sequence) ==
    IF sequence.type = "tuple"
    THEN [i \in 1..Len(sequence.keys) |-> Key("keyDown", sequence.keys[i])]
         \o [i \in 1..Len(sequence.keys) |-> Key("keyUp", sequence.keys[i])]
    ELSE <<Key("pyautogui.press", sequence.keys[1])>>

\* The body of the loop of Keys.execute for one entry: keyDown for the keys
\* of a tuple in order, then keyUp for them in reversed order; press for
\* another entry.
SequenceOps(sequence) ==
    IF sequence.type = "tuple"
    THEN [i \in 1..Len(sequence.keys) |-> Key("keyDown", sequence.keys[i])]
         \o [i \in 1..Len(sequence.keys) |->
                Key("keyUp", sequence.keys[Len(sequence.keys) + 1 - i])]
    ELSE <<Key("pyautogui.press", sequence.keys[1])>>

RECURSIVE KeyOps(_)
KeyOps(key_sequences) ==
    IF key_sequences = <<>> THEN <<>>
    ELSE SequenceOps(Head(key_sequences)) \o KeyOps(Tail(key_sequences))

Keys_execute(step, c, w, env) ==
    Result(RunOps(w, c, KeyOps(step.key_sequences)
                        \o <<Log("arrows", "Pressed", "", <<>>, 0)>>
                        \o GuiWait(step, <<>>, Waited(step)), env), c)

\* Sleep.  self.duration = duration / 1000 is a number of seconds; the model
\* keeps it, and every other time, in thousandths of a second.
Sleep(duration, randomize, wait) ==
    [kind |-> "Sleep", duration |-> duration, randomize |-> randomize, wait |-> wait]

Max(a, b) == IF a >= b THEN a ELSE b

\* int(t) of a time t: the whole seconds of it, rounded towards zero.
IntOf(t) == IF t >= 0 THEN t \div 1000 ELSE 0 - ((0 - t) \div 1000)

\* min_duration and max_duration: whole numbers.
SleepMin(step) == Max(IntOf(step.duration - 1000), 1)
SleepMax(step) == Max(IntOf(step.duration + 1000), SleepMin(step))

\* The values randint(min_duration, max_duration) may return.
SleepRands(step) ==
    IF step.randomize /\ SleepMin(step) # SleepMax(step)
    THEN SleepMin(step)..SleepMax(step) ELSE {0}

\* actual_duration: self.duration, or randint(...) / 1000 seconds, which is
\* randint(...) thousandths of a second.
ActualDuration(step, rand) ==
    IF step.randomize /\ SleepMin(step) # SleepMax(step) THEN rand ELSE step.duration

Sleep_execute(step, c, w, env) ==
    Result(RunOps(w, c, <<Sleeping(ActualDuration(step, env.rand)),
                          Log("hourglass", "Slept for", "", <<>>,
                              ActualDuration(step, env.rand))>>
                        \o GuiWait(step, <<>>, Waited(step)), env), c)

\* The file steps (files.py).  env.source says what is at the source path:
\* nothing, a file or a directory.  A step runs its try block and, when that
\* raises, the one log_action of its handler; then it returns the context.
CopyFile == [kind |-> "CopyFile"]
MoveFile == [kind |-> "MoveFile"]
DeleteFile(force) == [kind |-> "DeleteFile", force |-> force]
CopyLatestFileInFolder == [kind |-> "CopyLatestFileInFolder"]

Handled(w, c, try, text, env) ==
    LET r == RunOps(w, c, try, env) IN
    IF r.exc = "" THEN Result(r, c)
    ELSE Result(RunOps(r.w, c, <<Log(FailMark, text, r.exc, <<>>, 0)>>, env), c)

CopyFile_execute(step, c, w, env) ==
    Handled(w, c,
            IF env.source = "missing"
            THEN <<Log(FailMark, "Source file does not exist", "", <<>>, 0)>>
            ELSE <<Do("mkdir"), Do("copy"), Log("folder", "Copied", "", <<>>, 0)>>,
            "Error copying file", env)

MoveFile_execute(step, c, w, env) ==
    Handled(w, c,
            IF env.source = "missing"
            THEN <<Log(FailMark, "Source file does not exist", "", <<>>, 0)>>
            ELSE <<Do("mkdir"), Do("move"), Log("truck", "Moved", "", <<>>, 0)>>,
            "Error moving file", env)

DeleteFile_execute(step, c, w, env) ==
    Handled(w, c,
            IF env.source = "missing"
            THEN <<Log("warning", "File does not exist", "", <<>>, 0)>>
            ELSE IF env.source = "dir"
            THEN <<Log(FailMark, "Path is not a file", "", <<>>, 0)>>
            ELSE (IF step.force THEN <<Do("chmod")>> ELSE <<>>)
                 \o <<Do("unlink"), Log("bin", "Deleted", "", <<>>, 0)>>,
            "Error deleting file", env)

\* get_latest_file returns files only, or None.
CopyLatestFileInFolder_execute(step, c, w, env) ==
    Handled(w, c,
            IF env.source # "file"
            THEN <<Log(FailMark, "No file found with extension", "", <<>>, 0)>>
            ELSE <<Do("mkdir"), Do("copy"), Log("folder", "Copied", "", <<>>, 0)>>,
            "Error copying file", env)

\* A step object of the caller's own: its execute raises, returns the context
\* it was given (after storing a value in it or not), returns another
\* BotContext, or returns None.
Custom_execute(step, c, w, env) ==
    LET other == IF c = 1 THEN 2 ELSE 1 IN
    CASE env.custom = "raise" -> [w |-> w, exc |-> env.msg, ret |-> NoCtx]
      [] env.custom = "same" -> [w |-> w, exc |-> "", ret |-> c]
      [] env.custom = "store" -> Result(RunOps(w, c, <<Do("store_data")>>, env), c)
      [] env.custom = "none" -> [w |-> w, exc |-> "", ret |-> NoCtx]
      [] env.custom = "other" ->
            [w |-> [w EXCEPT !.ctxs[other] = IF @.made THEN @ ELSE BotContextInit],
             exc |-> "", ret |-> other]

\* function.execute(self.context), by the class of the step object.
Execute(step, c, w, env) ==
    CASE step.kind = "NewPage" -> NewPage_execute(step, c, w, env)
      [] step.kind = "GoToURL" -> GoToURL_execute(step, c, w, env)
      [] step.kind = "ClickElement" -> ClickElement_execute(step, c, w, env)
      [] step.kind = "FillInput" -> FillInput_execute(step, c, w, env)
      [] step.kind = "FillAndSubmit" -> FillAndSubmit_execute(step, c, w, env)
      [] step.kind = "ClickAndDownload" -> ClickAndDownload_execute(step, c, w, env)
      [] step.kind = "ClickOnReference" -> ClickOnReference_execute(step, c, w, env)
      [] step.kind = "Custom" -> Custom_execute(step, c, w, env)
      [] step.kind = "StoreState" -> StoreState_execute(step, c, w, env)
      [] step.kind = "Wait" -> Wait_execute(step, c, w, env)
      [] step.kind = "HandleDialog" -> HandleDialog_execute(step, c, w, env)
      [] step.kind = "Click" -> Click_execute(step, c, w, env)
      [] step.kind = "Screenshot" -> Screenshot_execute(step, c, w, env)
      [] step.kind = "TypeKeys" -> TypeKeys_execute(step, c, w, env)
      [] step.kind = "ClickAt" -> ClickAt_execute(step, c, w, env)
      [] step.kind = "Keys" -> Keys_execute(step, c, w, env)
      [] step.kind = "Sleep" -> Sleep_execute(step, c, w, env)
      [] step.kind = "CopyFile" -> CopyFile_execute(step, c, w, env)
      [] step.kind = "MoveFile" -> MoveFile_execute(step, c, w, env)
      [] step.kind = "DeleteFile" -> DeleteFile_execute(step, c, w, env)
      [] step.kind = "CopyLatestFileInFolder" ->
            CopyLatestFileInFolder_execute(step, c, w, env)

(***************************************************************************)
(* What the environment decides during one step call.                      *)
(***************************************************************************)
FaultOps(kind) ==
    CASE kind = "NewPage" -> {"new_page", "evaluate"}
      [] kind = "GoToURL" -> {"goto"}
      [] kind = "ClickElement" -> {"element_click"}
      [] kind = "FillInput" -> {"fill"}
      [] kind = "FillAndSubmit" -> {"fill", "press"}
      [] kind = "ClickAndDownload" -> {"element_click", "download", "save_as"}
      [] kind = "ClickOnReference" -> {"screenshot", "moveTo", "click"}
      [] kind = "Custom" -> {}
      [] kind = "StoreState" -> {"makedirs", "storage_state"}
      [] kind = "Wait" -> {"wait_for_timeout"}
      [] kind = "HandleDialog" -> {}
      [] kind = "Click" -> {"click"}
      [] kind = "Screenshot" -> {"screenshot"}
      [] kind = "TypeKeys" -> {"typewrite"}
      [] kind = "ClickAt" -> {"moveTo", "click"}
      [] kind = "Keys" -> {"keyDown", "keyUp", "pyautogui.press"}
      [] kind = "Sleep" -> {}
      [] kind = "CopyFile" -> {"mkdir", "copy"}
      [] kind = "MoveFile" -> {"mkdir", "move"}
      [] kind = "DeleteFile" -> {"chmod", "unlink"}
      [] kind = "CopyLatestFileInFolder" -> {"mkdir", "copy"}

Env(f, fault, loaded, peak, custom, msg) ==
    [f |-> f, fault |-> fault, loaded |-> loaded, peak |-> peak, custom |-> custom,
     msg |-> msg, site |-> {}, reverse |-> FALSE, source |-> "file", rand |-> 0,
     at |-> <<0, 0>>]

\* What the browser decides during one step call: the cookies the site of a
\* GoToURL sets, and the order a StoreState lists the cookies in.  The cookies
\* are followed only in the scripts that store state.
Jars(kind, vocabulary) ==
    IF kind = "GoToURL" /\ "StoreState" \in vocabulary THEN {{}, {"g"}} ELSE {{}}
Orders(kind) == IF kind = "StoreState" THEN BOOLEAN ELSE {FALSE}

\* What a file step may find at its source path.
Sources(kind) == IF kind \in FileKinds THEN {"missing", "file", "dir"} ELSE {"file"}

\* The most calls of log_action one step call makes, the one of the handler of
\* the step loop included.
LogCalls(kind) ==
    CASE kind = "NewPage" -> 5
      [] kind = "ClickAndDownload" -> 6
      [] kind = "ClickOnReference" -> 12
      [] kind = "Custom" -> 1
      [] kind = "StoreState" -> 2
      [] kind = "ClickAt" -> 5
      [] OTHER -> 3

Envs(kind, b, d) ==
    {Env(f, fault, d.loaded, d.peak, custom, msg) :
        f \in LogFaults(LogCalls(kind), b),
        fault \in {"none"} \cup (IF b > 0 THEN FaultOps(kind) ELSE {}),
        custom \in (IF kind = "Custom" THEN CustomOutcomes ELSE {"same"}),
        msg \in (IF kind = "Custom" THEN ExcMessages ELSE {"e1"})}

\* The orchestrator's own statements: only a log write can be made to fail.
OwnEnvs(n, b) == {Env(f, "none", TRUE, 0, "same", "e1") : f \in LogFaults(n, b)}

(***************************************************************************)
(* The script: it constructs its step objects, then the SageBot.           *)
(***************************************************************************)
ScriptSelectors == {NoneStr, Some(<<"a">>)}
NoArgs == <<NoneStr, NoneStr>>

Call(kind, x_path, css) == [kind |-> kind, x_path |-> x_path, css |-> css]
NoCall == Call("", NoneStr, NoneStr)

\* What the constructor of a step class does with its arguments: the step
\* object, or the exception of parse_selector.
Construct(kind, x_path, css, threshold, wait) ==
    IF kind \in SelectorKinds
    THEN LET r == parse_selector(x_path, css) IN
         [exc |-> r.exc, step |-> Step(kind, r.val, 0, wait),
          call |-> Call(kind, x_path, css)]
    ELSE [exc |-> "", step |-> Step(kind, <<>>, threshold, wait),
          call |-> Call(kind, x_path, css)]

\* The constructor calls the script can make for a class.
Constructions(kind) ==
    IF kind \in SelectorKinds
    THEN {Construct(kind, x, c, 0, 0) : x \in ScriptSelectors, c \in ScriptSelectors}
    ELSE IF kind = "ClickOnReference"
    THEN {Construct(kind, NoneStr, NoneStr, t, wt) : t \in Thresholds, wt \in Waits}
    ELSE IF kind = "StoreState"
    THEN {[exc |-> "", step |-> StoreState(n), call |-> Call(kind, NoneStr, NoneStr)] :
             n \in StoreNames}
    ELSE IF kind \in {"Wait", "HandleDialog"} \cup FileKinds
    THEN {[exc |-> "", step |-> st, call |-> Call(kind, NoneStr, NoneStr)] :
             st \in CASE kind = "Wait" -> {Wait(500)}
                      [] kind = "HandleDialog" -> {HandleDialog(a, 0) : a \in BOOLEAN}
                      [] kind = "CopyFile" -> {CopyFile}
                      [] kind = "MoveFile" -> {MoveFile}
                      [] kind = "DeleteFile" -> {DeleteFile(f) : f \in BOOLEAN}
                      [] kind = "CopyLatestFileInFolder" -> {CopyLatestFileInFolder}}
    ELSE {Construct(kind, NoneStr, NoneStr, 0, 0)}

NoStep == Step("", <<>>, 0, 0)
NoLast == [step |-> NoStep, given |-> NoCtx, loaded |-> FALSE, peak |-> 0, source |-> "",
           ev |-> <<>>, exc |-> "", ret |-> NoCtx, escaped |-> FALSE]
NoHist == [start |-> NoCtx, base |-> [c \in CtxIds |-> 0], invoked |-> <<>>,
           passed |-> <<>>, returned |-> <<>>, failedAt |-> 0, failure |-> "",
           read |-> <<>>]
NoSession == [launched |-> FALSE, closes |-> 0, stops |-> 0]

ConstructStep ==
    /\ phase = "script"
    /\ Len(steps) < MaxSteps
    /\ \E kind \in kinds : \E r \in Constructions(kind) :
          /\ phase' = IF r.exc # "" THEN "config_error" ELSE phase
          /\ steps' = IF r.exc # "" THEN steps ELSE Append(steps, r.step)
          /\ ctor' = r.call
          /\ error' = r.exc
    /\ UNCHANGED <<funVars, kinds, functions, state_name, held, ctxs, logs, stdout,
                   stateFiles, disk, storage, desktop, nextPage, pc, idx, runs, session,
                   hist, last, faults>>

\* SageBot.__init__
SageBotInit ==
    /\ phase = "script"
    /\ \E name \in StateNames : \E env \in OwnEnvs(1, Spare(faults)) :
          LET w0 == World([ctxs EXCEPT ![1] = BotContextInit], logs, stdout, nextPage)
              r == RunOps(w0, 1, <<Log("robot", "Booting up SageBot", "", <<>>, 0)>>, env)
          IN /\ phase' = IF r.exc # "" THEN "init_error" ELSE "bot"
             /\ pc' = IF r.exc # "" THEN pc ELSE "idle"
             /\ held' = IF r.exc # "" THEN held ELSE 1
             /\ functions' = IF r.exc # "" THEN functions ELSE steps
             /\ state_name' = IF r.exc # "" THEN state_name ELSE name
             /\ ctxs' = r.w.ctxs
             /\ logs' = r.w.logs
             /\ stdout' = r.w.stdout
             /\ faults' = faults + r.w.hit
             /\ error' = r.exc
    /\ UNCHANGED <<funVars, kinds, steps, ctor, stateFiles, disk, storage, desktop,
                   nextPage, idx, runs, session, hist, last>>

(***************************************************************************)
(* SageBot.execute: the statements before the step loop, one step call of  *)
(* the loop with its exception handler, and the statements after the loop. *)
(***************************************************************************)
Ready(cs, c) ==
    c # NoCtx /\ cs[c].playwright # 0 /\ cs[c].browser # 0 /\ cs[c].context # 0

\* The line the exception handler of the step loop logs.
ErrorLine(step, e) ==
    [op |-> "log",
     line |-> [Line(FailMark, "Error executing", step.kind, <<>>, 0) EXCEPT !.detail = e]]

\* The held context as it would be if the value a step returns were dropped.
NextContext_dropped(r, c) == c

\* self.context after a step call: the value the step returned, if it returned.
NextContext(r, c) == IF r.exc = "" THEN r.ret ELSE c

\* The loop as it would be if the handler did not break out of it.
LoopAfter_continue(raised, escaped, i, n) ==
    IF escaped THEN [pc |-> "raised", idx |-> i]
    ELSE IF i = n THEN [pc |-> "teardown", idx |-> i + 1]
    ELSE [pc |-> "loop", idx |-> i + 1]

\* The loop as it would be if the exception were not caught.
LoopAfter_uncaught(raised, escaped, i, n) ==
    IF raised THEN [pc |-> "raised", idx |-> i]
    ELSE IF i = n THEN [pc |-> "teardown", idx |-> i + 1]
    ELSE [pc |-> "loop", idx |-> i + 1]

\* Where execute goes after the call of step i of n: out with the exception
\* that escaped the handler, to the statements after the loop when the step
\* raised or was the last one, to the next step otherwise.
LoopAfter(raised, escaped, i, n) ==
    IF escaped THEN [pc |-> "raised", idx |-> i]
    ELSE IF raised THEN [pc |-> "teardown", idx |-> i]
    ELSE IF i = n THEN [pc |-> "teardown", idx |-> i + 1]
    ELSE [pc |-> "loop", idx |-> i + 1]

ExecuteBegin ==
    /\ phase = "bot"
    /\ pc \in {"idle", "returned"}
    /\ runs < MaxRuns
    /\ \E env \in OwnEnvs(2, Spare(faults)) :
          LET run == runs + 1
              w0 == World(ctxs, logs, stdout, nextPage)
              r1 == RunOps(w0, held,
                           <<Log("robot", "SageBot execution started.", "", <<>>, 0)>>, env)
              named == Truthy(state_name)
              missing == named /\ state_name[1] \notin stateFiles
              r2 == IF r1.exc # "" THEN r1
                    ELSE IF missing THEN Fail(r1.w, "FileNotFoundError")
                    ELSE RunOps(r1.w, held,
                                <<IF named
                                  THEN Log("disk", "Loaded state", "", <<>>, 0)
                                  ELSE Log("disk", "No state name provided", "", <<>>, 0)>>,
                                env)
              after == LoopAfter(FALSE, FALSE, 0, Len(functions))
          IN /\ runs' = run
             /\ session' = [session EXCEPT ![run] =
                               [NoSession EXCEPT !.launched = (r1.exc = "")]]
             /\ ctxs' = IF r2.exc # "" THEN r2.w.ctxs
                        ELSE [r2.w.ctxs EXCEPT ![held] =
                                 set_context(set_browser(set_playwright(@, run), run), run)]
             /\ logs' = r2.w.logs
             /\ stdout' = r2.w.stdout
             /\ faults' = faults + r2.w.hit
             /\ error' = r2.exc
             /\ pc' = IF r2.exc # "" THEN "raised" ELSE after.pc
             /\ idx' = 1
             /\ storage' = IF r1.exc # "" \/ missing THEN storage
                           ELSE [storage EXCEPT ![run] =
                                    IF named THEN Load(disk[RestorePath(state_name[1])])
                                    ELSE {}]
             /\ hist' = [NoHist EXCEPT !.start = held,
                                       !.base = [c \in CtxIds |-> Len(logs[c])],
                                       !.read = IF named /\ r1.exc = "" /\ ~missing
                                                THEN <<disk[RestorePath(state_name[1])]>>
                                                ELSE <<>>]
             /\ last' = NoLast
    /\ UNCHANGED <<funVars, kinds, phase, steps, ctor, functions, state_name, held,
                   stateFiles, disk, desktop, nextPage>>

\* One call function.execute(self.context) of the loop and what the handler
\* of the loop does with the exception it raises.
StepCall(step, c, w, env) ==
    LET r == Execute(step, c, w, env)
        h == IF r.exc = "" THEN Ok(r.w) ELSE RunOps(r.w, c, <<ErrorLine(step, r.exc)>>, env)
    IN [r |-> r, h |-> h]

RunStep ==
    /\ pc = "loop"
    /\ \E e \in Envs(functions[idx].kind, Spare(faults), desktop) :
       \E jar \in Jars(functions[idx].kind, kinds) :
       \E reverse \in Orders(functions[idx].kind) :
       \E source \in Sources(functions[idx].kind) :
       \E env \in {[e EXCEPT !.site = jar, !.reverse = reverse, !.source = source]} :
       \E call \in {StepCall(functions[idx], held,
                              Machine(World(ctxs, logs, stdout, nextPage), disk, storage),
                              env)} :
       \E after \in {LoopAfter(call.r.exc # "", call.h.exc # "", idx, Len(functions))} :
          /\ call.h.w.hit <= Spare(faults)
          /\ faults' = faults + call.h.w.hit
          /\ error' = call.h.exc
          /\ held' = NextContext(call.r, held)
          /\ ctxs' = call.h.w.ctxs
          /\ logs' = call.h.w.logs
          /\ stdout' = call.h.w.stdout
          /\ nextPage' = call.h.w.nextPage
          /\ disk' = call.h.w.disk
          /\ storage' = call.h.w.storage
          /\ stateFiles' = stateFiles \cup Stored(call.h.w.disk)
          /\ pc' = after.pc
          /\ idx' = after.idx
          /\ hist' = [hist EXCEPT
                         !.invoked = Append(@, idx),
                         !.passed = Append(@, [ctx |-> held,
                                               ready |-> Ready(ctxs, held),
                                               fresh |-> held # NoCtx /\ Fresh(ctxs[held])]),
                         !.returned = IF call.r.exc = "" THEN Append(@, call.r.ret) ELSE @,
                         !.failedAt = IF call.r.exc # "" THEN idx ELSE @,
                         !.failure = call.r.exc]
          /\ last' = [step |-> functions[idx], given |-> held, loaded |-> env.loaded,
                      peak |-> env.peak, source |-> env.source, ev |-> call.r.w.ev,
                      exc |-> call.r.exc, ret |-> call.r.ret, escaped |-> call.h.exc # ""]
    /\ UNCHANGED <<funVars, kinds, phase, steps, ctor, functions, state_name,
                   desktop, runs, session>>

Teardown ==
    /\ pc = "teardown"
    /\ \E env \in OwnEnvs(1, Spare(faults)) :
          LET browser == IF held = NoCtx THEN 0 ELSE ctxs[held].browser
              playwright == IF held = NoCtx THEN 0 ELSE ctxs[held].playwright
              closed == browser # 0
              stopped == closed /\ playwright # 0
              w0 == World(ctxs, logs, stdout, nextPage)
              r == IF ~stopped THEN Fail(w0, "AttributeError")
                   ELSE RunOps(w0, held,
                               <<Log("flag", "Bot execution completed", "", <<>>, 0)>>, env)
              s1 == IF closed THEN [session EXCEPT ![browser].closes = @ + 1] ELSE session
          IN /\ session' = IF stopped THEN [s1 EXCEPT ![playwright].stops = @ + 1] ELSE s1
             /\ logs' = r.w.logs
             /\ stdout' = r.w.stdout
             /\ faults' = faults + r.w.hit
             /\ error' = r.exc
             /\ pc' = IF r.exc # "" THEN "raised" ELSE "returned"
    /\ UNCHANGED <<funVars, kinds, phase, steps, ctor, functions, state_name, held,
                   ctxs, stateFiles, disk, storage, desktop, nextPage, idx, runs, hist,
                   last>>

(***************************************************************************)
(* Coordinates (gui.py).  A Python float is a rational number n/d here.    *)
(* A float operation yields the exact result when that is a small dyadic   *)
(* number, hence a float; otherwise it yields some value within the        *)
(* relative error FloatErr of the exact result, and the model keeps the    *)
(* interval [lo, hi] of the values it may be.                              *)
(***************************************************************************)
Rat(n, d) == [n |-> n, d |-> d]
FloatErr == Rat(1, 64)

\* n/d is k/2^j for some j: a float holds it exactly.
IsDyadic(r) == \E j \in 0..10 : (r.n * 2^j) % r.d = 0

Point(r) == [lo |-> r, hi |-> r]
Below(r) == Rat(r.n * (FloatErr.d - FloatErr.n), r.d * FloatErr.d)
Above(r) == Rat(r.n * (FloatErr.d + FloatErr.n), r.d * FloatErr.d)

\* The float that a correctly rounded operation makes of the exact result r.
Fl(r) == IF IsDyadic(r) THEN r ELSE Below(r)
Fh(r) == IF IsDyadic(r) THEN r ELSE Above(r)

\* a / b for ints a >= 0 and b > 0.
TrueDiv(a, b) == [lo |-> Fl(Rat(a, b)), hi |-> Fh(Rat(a, b))]

\* f * w for a float f >= 0 and an int w > 0.
TimesInt(f, w) == [lo |-> Fl(Rat(f.lo.n * w, f.lo.d)), hi |-> Fh(Rat(f.hi.n * w, f.hi.d))]

\* round as it would be if it cut the fraction off.
RoundRat_trunc(r) == r.n \div r.d

\* round as it would be if it went up to the next integer.
RoundRat_up(r) == (r.n \div r.d) + 1

\* Python's round of n/d >= 0: to the nearest integer, a half to the even one.
RoundRat(r) ==
    LET q == r.n \div r.d
        twice == 2 * (r.n - q * r.d)
    IN IF twice < r.d THEN q
       ELSE IF twice > r.d THEN q + 1
       ELSE IF q % 2 = 0 THEN q ELSE q + 1

\* The ints round(f) may be.
PyRound(f) == RoundRat(f.lo)..RoundRat(f.hi)

\* The centre of the match as it would be with the whole template added.
Centre_far(corner, size) == corner + size

\* The centre of the match as it would be without the half template.
Centre_corner(corner, size) == corner

\* center_x = top_left[0] + template_width // 2, and likewise center_y.
Centre(corner, size) == corner + (size \div 2)

\* x_ratio = center_x / screenshot_width; x = round(x_ratio * screenshot_width).
RoundTrip(centre, extent) == PyRound(TimesInt(TrueDiv(centre, extent), extent))

\* x = round(self.x_ratio * w) of MouseMove.execute and DragTo.execute, for
\* the ratio k / RatioDen.
Target(k, extent) == PyRound(TimesInt(Point(Rat(k, RatioDen)), extent))

Geo(fn, tw, th, left, top, W, H, xr, yr) ==
    [fn |-> fn, tw |-> tw, th |-> th, left |-> left, top |-> top, W |-> W, H |-> H,
     xr |-> xr, yr |-> yr]
NoGeo == Geo("", 0, 0, 0, 0, 0, 0, 0, 0)
Pixels(cx, cy, xs, ys) == [cx |-> cx, cy |-> cy, xs |-> xs, ys |-> ys]
NoPixels == Pixels(0, 0, {}, {})

\* The screens, the templates that fit on them with the places they can
\* match at, the centres and the ratios.
Extents == 1..MaxDim
Matches2D ==
    {Geo("match", tw, th, left, top, W, H, 0, 0) :
        tw \in Extents, th \in Extents, left \in 0..MaxDim, top \in 0..MaxDim,
        W \in Extents, H \in Extents}
GeoMatches == {g \in Matches2D : g.left + g.tw <= g.W /\ g.top + g.th <= g.H}
GeoCentres ==
    {g \in {Geo("centre", 0, 0, cx, cy, W, H, 0, 0) :
               cx \in 0..MaxDim, cy \in 0..MaxDim, W \in Extents, H \in Extents} :
        g.left <= g.W /\ g.top <= g.H}
GeoRatios ==
    {Geo("ratio", 0, 0, 0, 0, W, H, xr, yr) :
        W \in Extents, H \in Extents, xr \in 0..RatioDen, yr \in 0..RatioDen}

\* The ratio steps (gui.py).  A step keeps the numerators of its ratios over
\* RatioDen and its wait; built is the size the screen had when the step was
\* constructed, which no field of the object keeps.
MoveKinds == {"MouseMove", "DragTo"}
MoveStep(kind, x_ratio, y_ratio, wait) ==
    [kind |-> kind, x_ratio |-> x_ratio, y_ratio |-> y_ratio, wait |-> wait]
NoScreen == <<0, 0>>
NoMover == [step |-> MoveStep("", 0, 0, 0), built |-> NoScreen]

\* The horizontal and the vertical target are computed alike and apart: the
\* sizes pair every width with some height.
ScreenSizes == {<<d, MaxDim + 1 - d>> : d \in Extents}

\* The size execute would use if the step kept the one of its construction.
get_screen_size_construction(now, built) == built

\* GUIStep.get_screen_size as execute calls it: pyautogui.size(), the size
\* the screen has at the call.
get_screen_size(now, built) == now

\* The pixels execute may compute for the step on a screen of that size.
MoveTargets(step, size) == Target(step.x_ratio, size[1]) \X Target(step.y_ratio, size[2])

\* The statements of execute after x and y are computed.
MoveOps(step, op, text, x, y) ==
    <<At(op, x, y), LogAt("point", text, x, y)>>
    \o GuiWait(step, <<>>, <<Log("hourglass", "Waited", "", <<>>, step.wait)>>)

MouseMove_execute(step, c, w, env, x, y) ==
    Result(RunOps(w, c, MoveOps(step, "moveTo", "Moved mouse to", x, y), env), c)

DragTo_execute(step, c, w, env, x, y) ==
    Result(RunOps(w, c, MoveOps(step, "dragTo", "Dragged to", x, y), env), c)

MoveCall(step, c, w, env, x, y) ==
    IF step.kind = "MouseMove" THEN MouseMove_execute(step, c, w, env, x, y)
    ELSE DragTo_execute(step, c, w, env, x, y)

\* What the environment decides during one call of a ratio step.
MoveEnvs(b) ==
    {[e EXCEPT !.fault = fault] :
        e \in OwnEnvs(2, b),
        fault \in {"none"} \cup (IF b > 0 THEN {"moveTo", "dragTo"} ELSE {})}

(***************************************************************************)
(* The name ClickAndDownload.execute saves a download under.               *)
(***************************************************************************)
\* The strings of at most n characters of an alphabet.
StrsOver(alphabet, n) == UNION {[1..k -> alphabet] : k \in 0..n}

\* ch in s.
Contains(ch, s) == \E i \in DOMAIN s : s[i] = ch

\* s.split(sep): the pieces of s between the occurrences of sep.
RECURSIVE split(_, _)
split(s, sep) ==
    IF ~Contains(sep, s) THEN <<s>>
    ELSE LET i == CHOOSE i \in DOMAIN s : s[i] = sep /\ \A j \in 1..(i - 1) : s[j] # sep
         IN <<SubSeq(s, 1, i - 1)>> \o split(SubSeq(s, i + 1, Len(s)), sep)

\* s.rfind(ch), counting from 1: 0 when ch is not in s.
rfind(s, ch) ==
    IF ~Contains(ch, s) THEN 0
    ELSE CHOOSE i \in DOMAIN s : s[i] = ch /\ \A j \in (i + 1)..Len(s) : s[j] # ch

\* os.path.splitext as it would be if the name were cut at its first dot.
splitext_first(path) ==
    IF ~Contains(".", path) THEN <<path, <<>>>>
    ELSE LET i == CHOOSE i \in DOMAIN path :
                     path[i] = "." /\ \A j \in 1..(i - 1) : path[j] # "."
         IN <<SubSeq(path, 1, i - 1), SubSeq(path, i, Len(path))>>

\* os.path.splitext: <<root, ext>>.  The extension starts at the last dot
\* that comes after the last "/", when a character that is no dot stands
\* between them; else it is empty.
splitext(path) ==
    LET sepIndex == rfind(path, "/")
        dotIndex == rfind(path, ".")
    IN IF dotIndex > sepIndex
          /\ \E filenameIndex \in (sepIndex + 1)..(dotIndex - 1) : path[filenameIndex] # "."
       THEN <<SubSeq(path, 1, dotIndex - 1), SubSeq(path, dotIndex, Len(path))>>
       ELSE <<path, <<>>>>

\* final_name in ClickAndDownload.execute.
final_name(download_name, suggested_filename, url, timestamp) ==
    IF download_name = NoneStr
    THEN IF Truthy(suggested_filename)
         THEN timestamp \o splitext(suggested_filename[1])[2]
         ELSE LET pieces == split(url, "/")
                  url_path == pieces[Len(pieces)]
              IN IF /\ Contains(".", url_path)
                    /\ ~(url_path # <<>> /\ url_path[Len(url_path)] = "/")
                 THEN timestamp \o splitext(split(url_path, "?")[1])[2]
                 ELSE timestamp
    ELSE download_name[1]

\* The path handed to download.save_as.
SavePath(download_path, name) == download_path \o <<"/">> \o name

\* What the browser and the clock may hand to the step, and what the script
\* may ask for.
Urls == StrsOver({"/", ".", "?", "a"}, MaxNameLen)
Suggestions == {NoneStr} \cup {Some(n) : n \in StrsOver({".", "a"}, MaxNameLen)}
DownloadNames == {NoneStr, Some(<<>>), Some(<<"n", ".", "x">>)}
Timestamps == {<<"1">>, <<"2">>}
DownloadPath == <<"d">>

NoDownload == [download_name |-> NoneStr, suggested_filename |-> NoneStr, url |-> <<>>]
NoSaved == [saved |-> FALSE, timestamp |-> <<>>, final_name |-> <<>>, path |-> <<>>]

\* The result of get_page before any call.
NoGot == [exc |-> "unset", val |-> NoPage, index |-> 0]

(***************************************************************************)
(* The specifications: the script and its bot, for each of three           *)
(* vocabularies of step classes, and parse_selector on its own.            *)
(***************************************************************************)
NoResult == [exc |-> "unset", val |-> <<>>]

Desktops(vocabulary) ==
    IF "ClickOnReference" \in vocabulary
    THEN {[loaded |-> l, peak |-> p] : l \in BOOLEAN, p \in Peaks}
    ELSE {[loaded |-> TRUE, peak |-> 0]}

BotInit(vocabulary) ==
    /\ kinds = vocabulary
    /\ desktop \in Desktops(vocabulary)
    /\ phase = "script"
    /\ steps = <<>>
    /\ ctor = NoCall
    /\ functions = <<>>
    /\ state_name = NoneStr
    /\ held = NoCtx
    /\ ctxs = [c \in CtxIds |-> NoObject]
    /\ logs = [c \in CtxIds |-> <<>>]
    /\ stdout = <<>>
    /\ stateFiles \in SUBSET {<<"s">>}
    /\ disk \in [{RestorePath(n) : n \in stateFiles} ->
                    IF "StoreState" \in vocabulary THEN FileContents ELSE {<<>>}]
    /\ storage = [r \in 1..MaxRuns |-> {}]
    /\ nextPage = 1
    /\ pc = "none"
    /\ idx = 0
    /\ runs = 0
    /\ session = [r \in 1..MaxRuns |-> NoSession]
    /\ hist = NoHist
    /\ last = NoLast
    /\ faults = 0
    /\ error = ""

\* No function is being called on its own.
SelIdle == selIn = NoArgs /\ selOut = NoResult
GeoIdle == geoIn = NoGeo /\ geoOut = NoPixels
PageIdle == bc = NoObject /\ got = NoGot
MoveIdle == screen = NoScreen /\ mover = NoMover /\ moved = <<>>
CallIdle == unit = NoStep /\ calls = <<>> /\ listeners = <<>> /\ dialogs = <<>>
NameIdle == dlIn = NoDownload /\ dlOut = NoSaved
FunIdle == SelIdle /\ GeoIdle /\ PageIdle /\ MoveIdle /\ CallIdle /\ NameIdle

Init == FunIdle /\ BotInit(OrchestratorKinds)
InitBuild == FunIdle /\ BotInit(SelectorKinds)
InitRef == FunIdle /\ BotInit(ReferenceKinds)
InitState == FunIdle /\ BotInit(StateKinds)
InitPageless == FunIdle /\ BotInit(PageKinds)
InitFiles == FunIdle /\ BotInit(FileKinds)

Next ==
    \/ ConstructStep
    \/ SageBotInit
    \/ ExecuteBegin
    \/ RunStep
    \/ Teardown

Spec == Init /\ [][Next]_vars
SpecBuild == InitBuild /\ [][Next]_vars
SpecRef == InitRef /\ [][Next]_vars
SpecState == InitState /\ [][Next]_vars
SpecPageless == InitPageless /\ [][Next]_vars
SpecFiles == InitFiles /\ [][Next]_vars

\* One call of BrowserStep.parse_selector with any two arguments.
InitSel ==
    /\ selIn \in OptStrs \X OptStrs
    /\ selOut = NoResult
    /\ GeoIdle
    /\ PageIdle
    /\ MoveIdle
    /\ CallIdle
    /\ NameIdle
    /\ BotInit({})
    /\ stateFiles = {}

ParseSelector ==
    /\ selOut = NoResult
    /\ selOut' = parse_selector(selIn[1], selIn[2])
    /\ UNCHANGED <<selIn, geoVars, pageVars, moveVars, callVars, nameVars, botVars>>

NextSel == ParseSelector

SpecSel == InitSel /\ [][NextSel]_vars

\* One coordinate computation on its own: the centre of a template match
\* with its way through the ratios (ClickOnReference.execute), the way of a
\* given centre through the ratios, and the target of a ratio step
\* (MouseMove.execute, DragTo.execute).
InitGeo ==
    /\ geoIn \in GeoMatches \cup GeoCentres \cup GeoRatios
    /\ geoOut = NoPixels
    /\ SelIdle
    /\ PageIdle
    /\ MoveIdle
    /\ CallIdle
    /\ NameIdle
    /\ BotInit({})
    /\ stateFiles = {}

MatchCentre ==
    /\ geoIn.fn = "match"
    /\ geoOut = NoPixels
    /\ LET cx == Centre(geoIn.left, geoIn.tw)
           cy == Centre(geoIn.top, geoIn.th)
       IN geoOut' = Pixels(cx, cy, RoundTrip(cx, geoIn.W), RoundTrip(cy, geoIn.H))
    /\ UNCHANGED <<geoIn, selVars, pageVars, moveVars, callVars, nameVars, botVars>>

CentreRoundTrip ==
    /\ geoIn.fn = "centre"
    /\ geoOut = NoPixels
    /\ geoOut' = Pixels(geoIn.left, geoIn.top, RoundTrip(geoIn.left, geoIn.W),
                        RoundTrip(geoIn.top, geoIn.H))
    /\ UNCHANGED <<geoIn, selVars, pageVars, moveVars, callVars, nameVars, botVars>>

RatioTarget ==
    /\ geoIn.fn = "ratio"
    /\ geoOut = NoPixels
    /\ geoOut' = Pixels(0, 0, Target(geoIn.xr, geoIn.W), Target(geoIn.yr, geoIn.H))
    /\ UNCHANGED <<geoIn, selVars, pageVars, moveVars, callVars, nameVars, botVars>>

NextGeo == MatchCentre \/ CentreRoundTrip \/ RatioTarget

SpecGeo == InitGeo /\ [][NextGeo]_vars

\* The page methods of one BotContext, called in any order with any page and
\* any index, among calls of its other setters.
PageIds == 1..MaxPageId
Indexes == (0 - MaxPageId - 1)..MaxPageId

InitPages ==
    /\ bc = BotContextInit
    /\ got = NoGot
    /\ SelIdle
    /\ GeoIdle
    /\ MoveIdle
    /\ CallIdle
    /\ NameIdle
    /\ BotInit({})
    /\ stateFiles = {}

SetPage ==
    /\ \E page \in PageIds : bc' = set_page(bc, page)
    /\ got' = NoGot
    /\ UNCHANGED <<selVars, geoVars, moveVars, callVars, nameVars, botVars>>

GetPage ==
    /\ \E index \in Indexes : got' = get_page(bc, index)
    /\ UNCHANGED <<bc, selVars, geoVars, moveVars, callVars, nameVars, botVars>>

SetCurrentElement ==
    /\ bc' = set_current_element(bc, <<"a">>)
    /\ got' = NoGot
    /\ UNCHANGED <<selVars, geoVars, moveVars, callVars, nameVars, botVars>>

StoreData ==
    /\ bc' = store_data(bc, "k")
    /\ got' = NoGot
    /\ UNCHANGED <<selVars, geoVars, moveVars, callVars, nameVars, botVars>>

NextPages == SetPage \/ GetPage \/ SetCurrentElement \/ StoreData

SpecPages == InitPages /\ [][NextPages]_vars

\* A ratio step called on its own: the script makes a BotContext and the
\* step, and calls execute on it while the size of the screen changes.
InitMove ==
    /\ screen \in ScreenSizes
    /\ mover = NoMover
    /\ moved = <<>>
    /\ SelIdle
    /\ GeoIdle
    /\ PageIdle
    /\ CallIdle
    /\ NameIdle
    /\ BotInit({})
    /\ stateFiles = {}

\* The constructor call of a ratio step; the ratios pair every x ratio with
\* some y ratio.
MoveConstruct ==
    /\ mover = NoMover
    /\ \E kind \in MoveKinds : \E xr \in 0..RatioDen : \E wait \in Waits :
          mover' = [step |-> MoveStep(kind, xr, RatioDen - xr, wait), built |-> screen]
    /\ ctxs' = [ctxs EXCEPT ![1] = BotContextInit]
    /\ UNCHANGED <<selVars, geoVars, pageVars, callVars, nameVars, screen, moved, kinds,
                   phase, steps, ctor,
                   functions, state_name, held, logs, stdout, stateFiles, disk, storage,
                   desktop, nextPage, pc, idx, runs, session, hist, last, faults, error>>

\* The user or the system changes the resolution.
Resize ==
    /\ \E size \in ScreenSizes \ {screen} : screen' = size
    /\ UNCHANGED <<selVars, geoVars, pageVars, callVars, nameVars, mover, moved, botVars>>

MoveExecute ==
    /\ mover # NoMover
    /\ Len(moved) < MaxRuns
    /\ \E env \in MoveEnvs(Spare(faults)) :
       \E size \in {get_screen_size(screen, mover.built)} :
       \E t \in MoveTargets(mover.step, size) :
       \E r \in {MoveCall(mover.step, 1, World(ctxs, logs, stdout, nextPage), env,
                          t[1], t[2])} :
          /\ r.w.hit <= Spare(faults)
          /\ faults' = faults + r.w.hit
          /\ error' = r.exc
          /\ logs' = r.w.logs
          /\ stdout' = r.w.stdout
          /\ moved' = Append(moved, [size |-> screen, ev |-> r.w.ev, exc |-> r.exc,
                                     ret |-> r.ret])
    /\ UNCHANGED <<selVars, geoVars, pageVars, callVars, nameVars, screen, mover, kinds,
                   phase, steps, ctor,
                   functions, state_name, held, ctxs, stateFiles, disk, storage, desktop,
                   nextPage, pc, idx, runs, session, hist, last>>

NextMove == MoveConstruct \/ Resize \/ MoveExecute

SpecMove == InitMove /\ [][NextMove]_vars

(***************************************************************************)
(* A step of the library called on its own: the script makes a BotContext  *)
(* and one step object, may open a browser page of its own and hand it to  *)
(* the context, and calls execute; a page shows a dialog now and then.     *)
(***************************************************************************)
GuiKinds == {"Click", "Screenshot", "TypeKeys", "ClickAt", "Keys", "Sleep",
             "ClickOnReference"}
UnitKinds == PageKinds \cup {"NewPage", "StoreState"} \cup GuiKinds \cup MoveKinds
             \cup FileKinds

\* The keys of the keyboard, and the chords of distinct keys.
KeyIds == 1..MaxKeys
Chords == {ks \in UNION {[1..n -> KeyIds] : n \in 1..MaxKeys} :
              \A i, j \in DOMAIN ks : ks[i] = ks[j] => i = j}
KeyEntries == {KeyStr(k) : k \in KeyIds} \cup {KeyTuple(ks) : ks \in Chords}

\* The arguments the script may give to Keys: one entry, or a list of entries.
KeyArguments ==
    KeyEntries \cup {KeyList(<<>>)} \cup {KeyList(<<a>>) : a \in KeyEntries}
    \cup {KeyList(<<a, b>>) : a \in KeyEntries, b \in KeyEntries}

\* The durations the script may give to Sleep, in milliseconds.
Durations == {500, 2000, 3000}

\* The step objects the script can make of a class.
UnitSteps(kind) ==
    CASE kind \in MoveKinds ->
            {MoveStep(kind, xr, RatioDen - xr, 0) : xr \in 0..RatioDen}
      [] kind = "Keys" -> {Keys(a, 0) : a \in KeyArguments}
      [] kind = "Sleep" -> {Sleep(d, r, 0) : d \in Durations, r \in BOOLEAN}
      [] kind \in {"Click", "Screenshot", "TypeKeys"} ->
            {[kind |-> kind, wait |-> wt] : wt \in Waits}
      [] kind = "ClickAt" -> {ClickAt(1, 1, wt) : wt \in Waits}
      [] OTHER -> {k.step : k \in {k \in Constructions(kind) : k.exc = ""}}

\* What the environment decides during one call of execute.
UnitEnvs(step, b) ==
    {[e EXCEPT !.source = source, !.rand = rand, !.at = at, !.reverse = reverse] :
        e \in (IF step.kind \in MoveKinds THEN MoveEnvs(b)
               ELSE UNION {Envs(step.kind, b, d) : d \in Desktops({step.kind})}),
        source \in Sources(step.kind),
        rand \in (IF step.kind = "Sleep" THEN SleepRands(step) ELSE {0}),
        at \in (IF step.kind \in MoveKinds
                THEN MoveTargets(step, get_screen_size(screen, screen))
                ELSE {<<0, 0>>}),
        reverse \in Orders(step.kind)}

\* step.execute(context), for every class of the library.
Perform(step, c, w, env) ==
    IF step.kind \in MoveKinds THEN MoveCall(step, c, w, env, env.at[1], env.at[2])
    ELSE Execute(step, c, w, env)

InitCall ==
    /\ screen \in {size \in ScreenSizes : size[1] = MaxDim}
    /\ mover = NoMover
    /\ moved = <<>>
    /\ SelIdle
    /\ GeoIdle
    /\ PageIdle
    /\ CallIdle
    /\ NameIdle
    /\ BotInit({})
    /\ stateFiles = {}

\* The script makes the context and the step.
UnitConstruct ==
    /\ unit = NoStep
    /\ \E kind \in UnitKinds : \E step \in UnitSteps(kind) : unit' = step
    /\ ctxs' = [ctxs EXCEPT ![1] = BotContextInit]
    /\ UNCHANGED <<selVars, geoVars, pageVars, moveVars, nameVars, calls, listeners,
                   dialogs, kinds, phase, steps, ctor, functions, state_name, held, logs,
                   stdout, stateFiles, disk, storage, desktop, nextPage, pc, idx, runs,
                   session, hist, last, faults, error>>

\* The script opens a page in a browser context of its own and hands both to
\* the BotContext: context.set_context(...), context.set_page(page).
Attach ==
    /\ unit # NoStep
    /\ ctxs[1].page = NoPage
    /\ ctxs' = [ctxs EXCEPT ![1] = set_page(set_context(@, 1), nextPage)]
    /\ nextPage' = nextPage + 1
    /\ UNCHANGED <<selVars, geoVars, pageVars, moveVars, callVars, nameVars, kinds, phase,
                   steps, ctor, functions, state_name, held, logs, stdout, stateFiles,
                   disk, storage, desktop, pc, idx, runs, session, hist, last, faults, error>>

UnitExecute ==
    /\ unit # NoStep
    /\ Len(calls) < MaxRuns
    /\ \E env \in UnitEnvs(unit, Spare(faults)) :
       \E w \in {[Machine(World(ctxs, logs, stdout, nextPage), disk, storage)
                     EXCEPT !.listeners = listeners]} :
       \E r \in {Perform(unit, 1, w, env)} :
          /\ r.w.hit <= Spare(faults)
          /\ faults' = faults + r.w.hit
          /\ error' = r.exc
          /\ ctxs' = r.w.ctxs
          /\ logs' = r.w.logs
          /\ stdout' = r.w.stdout
          /\ nextPage' = r.w.nextPage
          /\ disk' = r.w.disk
          /\ storage' = r.w.storage
          /\ stateFiles' = stateFiles \cup Stored(r.w.disk)
          /\ listeners' = r.w.listeners
          /\ calls' = Append(calls, [given |-> 1, before |-> ctxs[1], rand |-> env.rand,
                                     ev |-> r.w.ev, exc |-> r.exc, ret |-> r.ret])
    /\ UNCHANGED <<selVars, geoVars, pageVars, moveVars, nameVars, unit, dialogs, kinds,
                   phase, steps, ctor, functions, state_name, held, desktop, pc, idx, runs,
                   session, hist, last>>

\* The handlers registered on a page, in the order of their registration.
HandlersOn(registered, page) ==
    LET on == SelectSeq(registered, LAMBDA l : l.page = page) IN
    [i \in DOMAIN on |-> on[i].handler]

\* A page shows a dialog: the listeners registered on that page are called.
DialogAppears ==
    /\ Len(dialogs) < MaxRuns
    /\ \E page \in {l.page : l \in Range(listeners)} :
          dialogs' = Append(dialogs, Emit(HandlersOn(listeners, page)))
    /\ UNCHANGED <<selVars, geoVars, pageVars, moveVars, nameVars, unit, calls, listeners,
                   botVars>>

NextCall == UnitConstruct \/ Attach \/ UnitExecute \/ DialogAppears

SpecCall == InitCall /\ [][NextCall]_vars

\* One download named on its own: any download_name, suggested filename and
\* URL; the clock gives the timestamp.
InitName ==
    /\ dlIn \in [download_name : DownloadNames, suggested_filename : Suggestions,
                 url : Urls]
    /\ dlOut = NoSaved
    /\ SelIdle
    /\ GeoIdle
    /\ PageIdle
    /\ MoveIdle
    /\ CallIdle
    /\ BotInit({})
    /\ stateFiles = {}

NameDownload ==
    /\ ~dlOut.saved
    /\ \E timestamp \in Timestamps :
       \E name \in {final_name(dlIn.download_name, dlIn.suggested_filename, dlIn.url,
                               timestamp)} :
          dlOut' = [saved |-> TRUE, timestamp |-> timestamp, final_name |-> name,
                    path |-> SavePath(DownloadPath, name)]
    /\ UNCHANGED <<dlIn, selVars, geoVars, pageVars, moveVars, callVars, botVars>>

NextName == NameDownload

SpecName == InitName /\ [][NextName]_vars

(***************************************************************************)
(* What the claims speak of.                                               *)
(***************************************************************************)
\* How often the step call recorded in last performed the operation name.
Count(name) == Cardinality({i \in DOMAIN last.ev : last.ev[i].op = name})

\* The step call recorded in last logged a failure-marked line.
LoggedAnyFailure ==
    \E i \in DOMAIN last.ev : last.ev[i].op = "log" /\ last.ev[i].line.tag = FailMark

\* The step call recorded in last logged a failure-marked line with this text.
LoggedFailure(text, num) ==
    \E i \in DOMAIN last.ev :
        /\ last.ev[i].op = "log"
        /\ last.ev[i].line.tag = FailMark
        /\ last.ev[i].line.text = text
        /\ last.ev[i].line.num = num

\* A pyautogui call of the step call recorded in last raised.
GuiFailed ==
    \E i \in DOMAIN last.ev : last.ev[i].op = "log" /\ last.ev[i].line.arg = "GuiError"

\* The lines the current run has appended to the log of context c.
RunLines(c) == IF c = NoCtx THEN <<>> ELSE SubSeq(logs[c], hist.base[c] + 1, Len(logs[c]))

\* execute has been left, by return or by an exception.
Left == pc \in {"returned", "raised"}

\* Sequence s starts with sequence t.
HasPrefix(s, t) == Len(s) >= Len(t) /\ SubSeq(s, 1, Len(t)) = t

\* The last constructor call had neither selector argument.
Neither == ctor.kind \in SelectorKinds /\ ~Truthy(ctor.x_path) /\ ~Truthy(ctor.css)

\* C1: the steps of a run are invoked in list order, each once, and once a
\* step has raised no further step of that run is invoked: the failing step
\* is the last one invoked (no retry, nothing after it).
C1_FailFast ==
    /\ hist.invoked = [k \in 1..Len(hist.invoked) |-> k]
    /\ Len(hist.invoked) <= Len(functions)
    /\ hist.failedAt # 0 => Len(hist.invoked) = hist.failedAt
    /\ (hist.failedAt = 0 /\ pc \in {"teardown", "returned"}) =>
          Len(hist.invoked) = Len(functions)

\* C1: a run was left after its first step raised, with a second step in the
\* list that was never invoked.
C1_Witness ==
    /\ pc = "returned"
    /\ hist.failedAt = 1
    /\ Len(functions) = 2
    /\ hist.invoked = <<1>>

\* C2: once execute has been left, the browser of every run that launched one
\* has been closed exactly once and its playwright stopped exactly once; stated
\* of the behaviours in which no log write and no browser call has failed.
C2_ReleaseOnce ==
    \A r \in 1..runs :
        (faults = 0 /\ session[r].launched /\ (r < runs \/ Left)) =>
            session[r].closes = 1 /\ session[r].stops = 1

\* C3: when a step has raised, the run's log holds exactly one failure-marked
\* record of the step loop, naming the class of the failing step and the
\* message of the exception, and execute does not leave by an exception;
\* stated of the behaviours in which no log write has failed.
C3_FailureLogged ==
    (faults = 0 /\ hist.failedAt # 0) =>
        LET lines == RunLines(hist.passed[Len(hist.passed)].ctx)
            errs == {i \in DOMAIN lines : lines[i].tag = FailMark
                                           /\ lines[i].text = "Error executing"}
        IN /\ Cardinality(errs) = 1
           /\ \A i \in errs : /\ lines[i].arg = functions[hist.failedAt].kind
                              /\ lines[i].detail = hist.failure
           /\ pc # "raised"

\* C4: the first step is handed the orchestrator's context with its
\* playwright, browser and browser-context handles set, and step k+1 is handed
\* exactly what step k returned.
C4_Threading ==
    /\ Len(hist.passed) >= 1 =>
          /\ hist.passed[1].ctx = hist.start
          /\ hist.passed[1].ready
    /\ \A k \in 1..(Len(hist.passed) - 1) :
          /\ k <= Len(hist.returned)
          /\ hist.passed[k + 1].ctx = hist.returned[k]
    /\ Len(hist.returned) <= Len(hist.passed)

\* C4: a step returned another context than the one it was given and the
\* next step was called with it.
C4_Witness ==
    /\ Len(hist.passed) = 2
    /\ hist.returned[1] # hist.start
    /\ hist.returned[1] # NoCtx
    /\ hist.passed[2].ctx = hist.returned[1]

\* C5: in every run, a second one on the same SageBot included, the context
\* handed to the first step has no pages, no current page, no current element
\* and no stored data.
C5_FreshEveryRun == Len(hist.passed) >= 1 => hist.passed[1].fresh

\* C6: a constructor call with neither x_path nor css ends the script with a
\* ValueError; then there is no SageBot, no context, no log record, nothing
\* printed and no run; and every selector step that exists has a selector.
C6_ConfigError ==
    /\ Neither <=> phase = "config_error"
    /\ phase = "config_error" =>
          /\ functions = <<>>
          /\ held = NoCtx
          /\ pc = "none"
          /\ runs = 0
          /\ stdout = <<>>
          /\ \A c \in CtxIds : ~ctxs[c].made /\ logs[c] = <<>>
          /\ \A r \in 1..MaxRuns : ~session[r].launched
    /\ \A q \in {steps, functions} : \A i \in DOMAIN q :
          q[i].kind \in SelectorKinds =>
             \E t \in {XPathTag, CssTag} :
                /\ Len(q[i].selector) > Len(t)
                /\ HasPrefix(q[i].selector, t)

\* C6: the script had constructed a step when a later constructor call with
\* neither argument raised.
C6_Witness == phase = "config_error" /\ Len(steps) >= 1 /\ Neither

\* C7 as stated: parse_selector returns a selector exactly when exactly one
\* of x_path and css is supplied.
C7_ExactlyOne ==
    selOut # NoResult =>
        (selOut.exc = "" <=> (Truthy(selIn[1]) /\ ~Truthy(selIn[2]))
                              \/ (~Truthy(selIn[1]) /\ Truthy(selIn[2])))

\* C7 amended: parse_selector returns a selector exactly when at least one of
\* x_path and css is supplied, raises ValueError when neither is, and when
\* both are it returns the x_path selector and ignores css.
C7_AtLeastOne ==
    selOut # NoResult =>
        /\ selOut.exc = "" <=> (Truthy(selIn[1]) \/ Truthy(selIn[2]))
        /\ selOut.exc # "" => selOut.exc = "ValueError"
        /\ (Truthy(selIn[1]) /\ Truthy(selIn[2])) =>
              selOut.val = XPathTag \o selIn[1][1]

\* C7: parse_selector was called with both arguments and returned.
C7_Witness ==
    /\ selOut # NoResult
    /\ Truthy(selIn[1])
    /\ Truthy(selIn[2])
    /\ selOut.exc = ""

\* C8: what parse_selector returns is "xpath=" followed by x_path when x_path
\* is supplied and "css=" followed by css when only css is, so that the tag
\* it starts with tells which argument it was made from.
C8_Tagging ==
    (selOut # NoResult /\ selOut.exc = "") =>
        /\ Truthy(selIn[1]) => selOut.val = XPathTag \o selIn[1][1]
        /\ (~Truthy(selIn[1]) /\ Truthy(selIn[2])) => selOut.val = CssTag \o selIn[2][1]
        /\ HasPrefix(selOut.val, XPathTag) <=> Truthy(selIn[1])
        /\ HasPrefix(selOut.val, CssTag) <=> ~Truthy(selIn[1])

\* C8: parse_selector returned a selector of the longest text, for a call
\* with css only or for a call with both arguments.
C8_Witness ==
    /\ selOut # NoResult
    /\ selOut.exc = ""
    /\ \/ ~Truthy(selIn[1]) /\ Len(selIn[2][1]) = MaxSelLen
       \/ Truthy(selIn[1]) /\ Truthy(selIn[2]) /\ Len(selIn[1][1]) = MaxSelLen

\* C9: when the peak is below the threshold, ClickOnReference.execute moves
\* and clicks nothing, logs a failure-marked record with the peak, sleeps
\* exactly when wait > 0, returns the context it was given, and the step loop
\* goes on.
C9_BelowThreshold ==
    (/\ last.step.kind = "ClickOnReference"
     /\ Count("screenshot") = 1
     /\ last.peak < last.step.threshold) =>
        /\ Count("moveTo") = 0
        /\ Count("click") = 0
        /\ LoggedFailure("No reference match found", last.peak)
        /\ Count("sleep") = (IF last.step.wait > 0 THEN 1 ELSE 0)
        /\ last.exc = ""
        /\ last.ret = last.given
        /\ ~last.escaped
        /\ hist.failedAt = 0

\* C10: ClickOnReference.execute moves and clicks exactly when the reference
\* image was loaded and the peak is at least the threshold; with the image
\* missing it takes no screenshot, does not click, logs the failure and
\* returns the context; it never clicks twice.  Stated of the calls in which
\* no pyautogui call raised, the peak being that of the screenshot taken.
C10_ThresholdGate ==
    (last.step.kind = "ClickOnReference" /\ ~GuiFailed) =>
        LET tried == Len(last.ev) >= 1 IN
        /\ (Count("moveTo") = 1 /\ Count("click") = 1)
              <=> (/\ tried
                   /\ last.loaded
                   /\ Count("screenshot") = 1
                   /\ last.peak >= last.step.threshold)
        /\ Count("click") <= 1
        /\ (tried /\ ~last.loaded) =>
              /\ Count("screenshot") = 0
              /\ Count("click") = 0
              /\ LoggedAnyFailure
              /\ last.exc = ""
              /\ last.ret = last.given

\* A coordinate computation of the given kind has been made.
Computed(fn) == geoIn.fn = fn /\ geoOut # NoPixels

\* C11: the centre ClickOnReference computes for a template of size (tw, th)
\* matched at (left, top) is within one pixel, on each axis, of the true
\* centre (left + tw/2, top + th/2); stated in half pixels.
C11_CentreAccuracy ==
    Computed("match") =>
        LET dx == 2 * geoOut.cx - (2 * geoIn.left + geoIn.tw)
            dy == 2 * geoOut.cy - (2 * geoIn.top + geoIn.th)
        IN /\ -2 <= dx /\ dx <= 2
           /\ -2 <= dy /\ dy <= 2

\* C11: the centre of a template of odd width and height, whose true centre
\* lies between two pixels, matched away from the origin.
C11_Witness ==
    /\ Computed("match")
    /\ geoIn.tw = 3
    /\ geoIn.th = 3
    /\ geoIn.left > 0
    /\ geoIn.top > 0

\* C12: on one capture of size (W, H), the way of an integer centre through
\* the ratios, round(cx / W * W) and round(cy / H * H), ends at the centre
\* itself, whatever floats the division and the multiplication yield.
C12_RatioRoundTrip ==
    (Computed("match") \/ Computed("centre")) =>
        /\ geoOut.xs = {geoOut.cx}
        /\ geoOut.ys = {geoOut.cy}

\* C12: a centre whose ratio is no exact float (1/3) and one on the far edge
\* of the capture came back.
C12_Witness ==
    /\ Computed("centre")
    /\ geoIn.W = 3
    /\ geoIn.left = 1
    /\ geoIn.top = geoIn.H

\* C13: the target of MouseMove and DragTo for ratios in [0, 1] lies on the
\* screen: 0 <= x <= w and 0 <= y <= h.
C13_TargetOnScreen ==
    Computed("ratio") =>
        /\ \A x \in geoOut.xs : 0 <= x /\ x <= geoIn.W
        /\ \A y \in geoOut.ys : 0 <= y /\ y <= geoIn.H
        /\ geoOut.xs # {}
        /\ geoOut.ys # {}

\* C13: the ratios (1, 0) on the largest screen gave the far edge and the
\* near edge.
C13_Witness ==
    /\ Computed("ratio")
    /\ geoIn.xr = RatioDen
    /\ geoIn.yr = 0
    /\ geoIn.W = MaxDim
    /\ geoOut.xs = {MaxDim}
    /\ geoOut.ys = {0}

\* C18: once set_page has been called the pages list is not empty and holds
\* no page twice, and get_page(index) resolves for every index: it returns an
\* entry of pages, or the current page when pages is empty, and never raises.
C18_PagesInvariant ==
    /\ bc.page # NoPage =>
          /\ bc.pages # <<>>
          /\ Cardinality(Range(bc.pages)) = Len(bc.pages)
          /\ bc.page \in Range(bc.pages)
    /\ got # NoGot =>
          /\ got.exc = ""
          /\ IF bc.pages = <<>> THEN got.val = bc.page ELSE got.val \in Range(bc.pages)

\* C19: after any calls of set_page, get_page() with the default index -1
\* returns the page passed to set_page last, which is context.page.
C19_DefaultIsCurrent ==
    (got # NoGot /\ got.index = -1 /\ bc.page # NoPage) =>
        /\ got.exc = ""
        /\ got.val = bc.page

\* Sequence a is what is left of sequence b after dropping some elements.
RECURSIVE IsSubseq(_, _)
IsSubseq(a, b) ==
    IF a = <<>> THEN TRUE
    ELSE IF b = <<>> THEN FALSE
    ELSE IF Head(a) = Head(b) THEN IsSubseq(Tail(a), Tail(b))
    ELSE IsSubseq(a, Tail(b))

\* What sequence b has after its first n elements.
After(b, n) == SubSeq(b, n + 1, Len(b))

\* C15: a call of the script only appends to a log file: the lines it finds
\* stay as they are and where they are, and the lines it adds are records of
\* its log_action calls in the order of the calls, which is the order in
\* which the calls printed them.
C15_AppendOnly ==
    [][\A c \in CtxIds :
          /\ Len(logs[c]) <= Len(logs'[c])
          /\ SubSeq(logs'[c], 1, Len(logs[c])) = logs[c]
          /\ IsSubseq(After(logs'[c], Len(logs[c])), After(stdout', Len(stdout)))]_vars

\* C15: a run has appended lines to a log that held lines before it began.
C15_Witness ==
    /\ runs = 2
    /\ hist.base[1] >= 3
    /\ Len(logs[1]) >= hist.base[1] + 3

\* C16: a failed append to the log file leaves no call as an exception:
\* neither SageBot.execute nor the execute of a step ends with the OSError
\* of the write.
C16_NoEscape ==
    /\ runs >= 1 => error # "OSError"
    /\ hist.failure # "OSError"
    /\ last.exc # "OSError"

Moves(call) == SelectSeq(call.ev, LAMBDA o : o.op \in {"moveTo", "dragTo"})

\* C14: every execution of a MouseMove or DragTo step moves or drags to
\* round(ratio * size) for the size the screen has at that execution, whatever
\* the size was when the step was constructed or executed before; an
\* execution that returns made exactly one such call.
C14_SizeAtExecute ==
    \A i \in DOMAIN moved :
        /\ \A j \in DOMAIN Moves(moved[i]) :
               /\ Moves(moved[i])[j].line.at \in MoveTargets(mover.step, moved[i].size)
               /\ Moves(moved[i])[j].op =
                      (IF mover.step.kind = "MouseMove" THEN "moveTo" ELSE "dragTo")
        /\ moved[i].exc = "" => Len(Moves(moved[i])) = 1 /\ moved[i].ret = 1

\* One step object executed twice, on screens of two sizes neither of which is
\* the one of its construction, with two different targets.
C14_Witness ==
    /\ Len(moved) = 2
    /\ moved[1].exc = "" /\ moved[2].exc = ""
    /\ moved[1].size # moved[2].size
    /\ mover.built \notin {moved[1].size, moved[2].size}
    /\ Moves(moved[1])[1].line.at # Moves(moved[2])[1].line.at
    /\ Moves(moved[1])[1].line.at \notin MoveTargets(mover.step, mover.built)

\* The run restored the state name and its only step call so far was a
\* StoreState of the same name, which returned.
RestoredAndStored ==
    /\ Truthy(state_name)
    /\ hist.read # <<>>
    /\ hist.invoked = <<1>>
    /\ hist.failure = ""
    /\ functions[1] = StoreState(state_name[1])

\* C20: StoreState(name) writes the path SageBot(state_name=name) restores
\* from, and after a run has restored the state name and at once executed
\* StoreState(name), the state file lists the same cookies as the file the
\* run read, in whatever order.
C20_RoundTrip ==
    /\ \A n \in StoreNames : StorePath(n) = RestorePath(n)
    /\ DOMAIN disk \subseteq {RestorePath(n) : n \in StoreNames}
    /\ RestoredAndStored =>
          /\ state_name[1] \in stateFiles
          /\ Load(disk[RestorePath(state_name[1])]) = Load(hist.read[1])

\* Such a run, of a file of two cookies that was written back in the other
\* order.
C20_Witness ==
    /\ RestoredAndStored
    /\ Len(hist.read[1]) = 2
    /\ disk[RestorePath(state_name[1])] # hist.read[1]

\* C30: for every capture, every template that fits in it and every corner
\* the template can match at, the position ClickOnReference passes to moveTo
\* lies inside the capture: 0 <= x <= W - 1 and 0 <= y <= H - 1.
C30_InsideCapture ==
    Computed("match") =>
        /\ geoOut.xs # {} /\ geoOut.ys # {}
        /\ \A x \in geoOut.xs : 0 <= x /\ x <= geoIn.W - 1
        /\ \A y \in geoOut.ys : 0 <= y /\ y <= geoIn.H - 1

\* A template of one pixel matched in the last column and the last row of a
\* capture that is not a power of two wide: the position is the last pixel.
C30_Witness ==
    /\ Computed("match")
    /\ geoIn.tw = 1 /\ geoIn.th = 1
    /\ geoIn.W = 3 /\ geoIn.H = 3
    /\ geoIn.left = 2 /\ geoIn.top = 2
    /\ geoOut.xs = {2} /\ geoOut.ys = {2}

\* C27: whenever execute reaches the end of the step loop, after the last
\* step or after a failure, the statements after the loop close the browser
\* and stop playwright of the run, once each, and then log "Bot execution
\* completed" as the last record of the run, and execute returns; stated of
\* the behaviours in which no log write and no browser call has failed.
C27_CompletionMarker ==
    [][(pc = "teardown" /\ faults' = 0) =>
          /\ pc' = "returned"
          /\ held # NoCtx
          /\ logs'[held] = Append(logs[held],
                                  Line("flag", "Bot execution completed", "", <<>>, 0))
          /\ session'[runs].closes = 1
          /\ session'[runs].stops = 1]_vars

\* The step classes whose execute is said to catch its own exceptions.
SelfCatching == {"ClickOnReference", "ClickAndDownload"}

\* C21: an exception raised in the execute of a ClickOnReference or a
\* ClickAndDownload, by the resolution of the selector or by the action, does
\* not leave execute: the step returns the context it was given and the loop
\* goes on; an exception raised in the execute of another step leaves it and
\* aborts the run.  Stated of the step calls on a context without a page,
\* where resolving the selector raises, with no log write failing.
C21_FailurePolicy ==
    (faults = 0 /\ last.step # NoStep /\ last.given # NoCtx
       /\ ctxs[last.given].page = NoPage /\ last.step.kind \in SelectorKinds) =>
        IF last.step.kind \in SelfCatching
        THEN last.exc = "" /\ last.ret = last.given /\ hist.failedAt = 0
        ELSE last.exc # "" /\ hist.failedAt = Len(hist.invoked)

\* The run has logged the failure record of the step loop for a step of
\* this class.
LoggedErrorOf(kind) ==
    \E i \in DOMAIN RunLines(held) :
        /\ RunLines(held)[i].tag = FailMark
        /\ RunLines(held)[i].text = "Error executing"
        /\ RunLines(held)[i].arg = kind

\* C29: when a step that needs the page is executed on a context without a
\* page, the step raises, the orchestrator logs the failure with the class of
\* the step, calls no further step, closes the browser, stops playwright and
\* returns.
C29_NoPage ==
    (Left /\ last.step # NoStep /\ last.step.kind \in PageKinds
          /\ last.given # NoCtx /\ ctxs[last.given].page = NoPage) =>
        /\ last.exc # ""
        /\ hist.failedAt = Len(hist.invoked)
        /\ LoggedErrorOf(last.step.kind)
        /\ session[runs].closes = 1
        /\ session[runs].stops = 1
        /\ pc = "returned"

\* A file step has performed a copy, a move or a delete.
Performed(ev) == \E i \in DOMAIN ev : ev[i].op \in {"copy", "move", "unlink"}

\* C22: a file step never raises: whatever is at its source path and
\* whatever its file operation does, it logs and returns the context it was
\* given, and the orchestrator goes on with the following step; when nothing
\* is at the source path the step copies, moves and deletes nothing.
C22_Contained ==
    (last.step # NoStep /\ last.step.kind \in FileKinds) =>
        /\ last.exc = ""
        /\ last.ret = last.given
        /\ hist.failedAt = 0
        /\ last.source = "missing" => ~Performed(last.ev)

(***************************************************************************)
(* The steps of the library called on their own.                           *)
(***************************************************************************)
Policy(step) == IF step.accept THEN "accept" ELSE "dismiss"
PolicyText(step) ==
    IF step.accept THEN "Set up dialog handler to accept dialogs"
    ELSE "Set up dialog handler to dismiss dialogs"

\* C23: HandleDialog(accept=True).execute registers on the current page a
\* handler that accepts a dialog that appears, HandleDialog(accept=False)
\* one that dismisses it; the registered handler is a callable, and the log
\* record of a call that returns names the policy.
C23_DialogPolicy ==
    unit.kind = "HandleDialog" =>
        /\ \A i \in DOMAIN listeners :
              /\ listeners[i].handler.callable
              /\ listeners[i].handler.does = Policy(unit)
        /\ \A i \in DOMAIN dialogs :
              /\ dialogs[i] # <<>>
              /\ \A j \in DOMAIN dialogs[i] : dialogs[i][j] = Policy(unit)
        /\ \A i \in DOMAIN calls :
              calls[i].exc = "" =>
                 \E k \in DOMAIN calls[i].ev :
                    /\ calls[i].ev[k].op = "log"
                    /\ calls[i].ev[k].line.text = PolicyText(unit)

\* C25: Sleep constructed with duration d >= 2000 ms blocks, with
\* randomize=True, for a time between d - 1000 ms and d + 1000 ms and, with
\* randomize=False, for exactly d ms; the logged duration is the time slept.
C25_NearDuration ==
    (unit.kind = "Sleep" /\ unit.duration >= 2000) =>
        \A i \in DOMAIN calls :
           /\ calls[i].ev # <<>>
           /\ calls[i].ev[1].op = "sleep"
           /\ unit.randomize =>
                 /\ unit.duration - 1000 <= calls[i].ev[1].line.num
                 /\ calls[i].ev[1].line.num <= unit.duration + 1000
           /\ ~unit.randomize => calls[i].ev[1].line.num = unit.duration
           /\ calls[i].exc = "" =>
                 /\ calls[i].ev[2].op = "log"
                 /\ calls[i].ev[2].line.num = calls[i].ev[1].line.num

\* The key strokes among the events of a call: <<what, key>>.
Strokes(ev) ==
    LET keyed == SelectSeq(ev, LAMBDA o : o.op \in {"keyDown", "keyUp", "pyautogui.press"})
    IN [i \in DOMAIN keyed |-> <<keyed[i].op, keyed[i].line.num>>]

\* The strokes the claim asks of one entry, and of a list of entries.
EntryStrokes(entry) ==
    IF entry.type = "tuple"
    THEN [i \in DOMAIN entry.keys |-> <<"keyDown", entry.keys[i]>>]
         \o [i \in DOMAIN entry.keys |-> <<"keyUp", entry.keys[Len(entry.keys) + 1 - i]>>]
    ELSE <<<<"pyautogui.press", entry.keys[1]>>>>

RECURSIVE ListStrokes(_)
ListStrokes(entries) ==
    IF entries = <<>> THEN <<>>
    ELSE EntryStrokes(Head(entries)) \o ListStrokes(Tail(entries))

\* How many times more key k went down than up.
HeldDown(strokes, k) ==
    Cardinality({i \in DOMAIN strokes : strokes[i] = <<"keyDown", k>>})
    - Cardinality({i \in DOMAIN strokes : strokes[i] = <<"keyUp", k>>})

\* C26: Keys processes the entries of key_sequences in list order: keyDown
\* for the keys of a tuple in order, then keyUp for them in reverse order; a
\* single press for another entry; when execute returns, no key is left held.
C26_ChordOrder ==
    unit.kind = "Keys" =>
        \A i \in DOMAIN calls :
           LET strokes == Strokes(calls[i].ev)
               asked == ListStrokes(unit.key_sequences) IN
           /\ Len(strokes) <= Len(asked)
           /\ \A j \in DOMAIN strokes : strokes[j] = asked[j]
           /\ calls[i].exc = "" =>
                 /\ strokes = asked
                 /\ \A k \in KeyIds : HeldDown(strokes, k) = 0

\* A list with a chord of two keys and another entry was carried out.
C26_Witness ==
    /\ unit.kind = "Keys"
    /\ Len(unit.key_sequences) >= 2
    /\ \E j \in DOMAIN unit.key_sequences :
          /\ unit.key_sequences[j].type = "tuple"
          /\ Len(unit.key_sequences[j].keys) >= 2
    /\ \E i \in DOMAIN calls : calls[i].exc = ""

\* C28: every path of execute of a step of lib.browser, lib.gui and
\* lib.files that does not raise returns the context it was given, never
\* None and never a new object, and the run folder of the context is the one
\* it had before the call.
C28_SameContext ==
    \A i \in DOMAIN calls :
       calls[i].exc = "" =>
          /\ calls[i].ret # NoCtx
          /\ calls[i].ret = calls[i].given
          /\ ctxs[calls[i].given].run_folder = calls[i].before.run_folder
          /\ \A c \in CtxIds \ {calls[i].given} : ~ctxs[c].made

\* NewPage, which ends in return context.set_page(page), returned twice.
C28_Witness ==
    /\ unit.kind = "NewPage"
    /\ Len(calls) >= 2
    /\ \A i \in DOMAIN calls : calls[i].exc = ""
    /\ Len(ctxs[1].pages) >= 2

(***************************************************************************)
(* The name of a download.                                                 *)
(***************************************************************************)
Suffixes(s) == {SubSeq(s, i, Len(s)) : i \in 1..(Len(s) + 1)}
Prefixes(s) == {SubSeq(s, 1, i) : i \in 0..Len(s)}

\* The last segment of a URL: what follows its last "/".
LastSegment(url) ==
    CHOOSE t \in Suffixes(url) :
        /\ ~Contains("/", t)
        /\ Len(t) < Len(url) => url[Len(url) - Len(t)] = "/"

\* A segment with its query string removed: what precedes its first "?".
WithoutQuery(segment) ==
    CHOOSE t \in Prefixes(segment) :
        /\ ~Contains("?", t)
        /\ Len(t) < Len(segment) => segment[Len(t) + 1] = "?"

\* e is the extension of a file name: the end of the name from its last dot
\* on, when the name has a dot with something other than dots before it,
\* and nothing otherwise.
IsExtensionOf(e, name) ==
    LET dotted == \E i, j \in DOMAIN name : i < j /\ name[i] # "." /\ name[j] = "."
    IN /\ e \in Suffixes(name)
       /\ dotted => e # <<>> /\ e[1] = "." /\ ~Contains(".", Tail(e))
       /\ ~dotted => e = <<>>

\* What follows the timestamp in a saved name.
AfterTimestamp(out) == SubSeq(out.final_name, Len(out.timestamp) + 1, Len(out.final_name))

\* C24: the download is saved under download_path/<name>; <name> is the
\* download_name when one is given, else the timestamp followed by the
\* extension of the suggested filename when there is one, else the timestamp
\* followed by the extension of the last segment of the URL without its query
\* string when that segment has a dot, else the timestamp alone.
C24_DownloadName ==
    dlOut.saved =>
        /\ dlOut.path = DownloadPath \o <<"/">> \o dlOut.final_name
        /\ dlIn.download_name # NoneStr => dlOut.final_name = dlIn.download_name[1]
        /\ dlIn.download_name = NoneStr =>
              /\ SubSeq(dlOut.final_name, 1, Len(dlOut.timestamp)) = dlOut.timestamp
              /\ IF Truthy(dlIn.suggested_filename)
                 THEN IsExtensionOf(AfterTimestamp(dlOut), dlIn.suggested_filename[1])
                 ELSE IF Contains(".", LastSegment(dlIn.url))
                 THEN IsExtensionOf(AfterTimestamp(dlOut),
                                    WithoutQuery(LastSegment(dlIn.url)))
                 ELSE dlOut.final_name = dlOut.timestamp

\* No name was asked for and none suggested; the last segment of the URL has
\* an extension and a query string, and the download was saved under the
\* timestamp and that extension.
C24_Witness ==
    /\ dlOut.saved
    /\ dlIn.download_name = NoneStr
    /\ ~Truthy(dlIn.suggested_filename)
    /\ dlIn.url = <<"a", ".", "a", "?">>
    /\ dlOut.final_name = dlOut.timestamp \o <<".", "a">>

====
